---- MODULE Spec2Model ----
(***************************************************************************)
(* State-machine model of smolagents' DockerExecutor                       *)
(* (src/src/smolagents/docker_executor.py): the executor object and its    *)
(* container, the Jupyter kernel behind the websocket, and the read loop   *)
(* of run_code.                                                            *)
(*                                                                         *)
(* The kernel and Docker are external collaborators.  The kernel is        *)
(* modelled by the Jupyter messaging protocol it speaks (status busy,      *)
(* stream, error, execute_reply, status idle, each carrying the id of the  *)
(* request it answers) and by a small Python semantics over a namespace.   *)
(*                                                                         *)
(* Spec is one executor used by one thread; SpecConcurrent adds a second   *)
(* thread that calls cleanup(); SpecPeers is two executors constructed     *)
(* side by side; SpecMemory is the step store of memory.py and logger.py   *)
(* with its projection to chat messages; SpecSteps is to_messages on one   *)
(* step object; SpecRawLog adds the raw log of model responses to the      *)
(* store; SpecCallbacks adds the step callbacks of the examples;           *)
(* SpecSerialize adds the serialized form of the store; and SpecReadLoop   *)
(* is the read loop of run_code over every short sequence of messages.     *)
(***************************************************************************)
EXTENDS Integers, Sequences, FiniteSets, TLC

\* Bound of the model: the number of calls the user makes on one executor.
MaxCalls == 2
\* Bound of the model: the number of teardowns (cleanup() or __del__).
MaxCleanups == 2

(***************************************************************************)
(* Python values, texts and the pickle/base64 codec.                       *)
(***************************************************************************)
PyInt(n) == [ty |-> "int", v |-> n, s |-> ""]
PyStr(t) == [ty |-> "str", v |-> 0, s |-> t]
PyNone == [ty |-> "NoneType", v |-> 0, s |-> ""]
\* The dict pickled by send_variables_to_kernel: v is the index of the mapping.
PyDict(i) == [ty |-> "dict", v |-> i, s |-> ""]
PyModule(t) == [ty |-> "module", v |-> 0, s |-> t]
\* The marker of a name that is not bound in the namespace.
Undef == [ty |-> "undef", v |-> 0, s |-> ""]
\* A PIL image, the value test_execute_image_output expects as result.
PyImage == [ty |-> "Image", v |-> 0, s |-> ""]

\* A text is a sequence of tokens. Chars(val) is str(val); B64Pickle(val) is
\* base64.b64encode(pickle.dumps(val)).decode(), a text that is not str(val).
Chars(val) == [tag |-> "chars", val |-> val]
B64Pickle(val) == [tag |-> "b64pickle", val |-> val]
NL == Chars(PyStr("\n"))
\* The literal "RESULT_PICKLE:" of lines 132, 156, 157 and 193.
Sentinel == Chars(PyStr("RESULT_PICKLE:"))
\* The literal "IMAGE_BASE64:" the test prints before an encoded image.
ImageMarker == Chars(PyStr("IMAGE_BASE64:"))
\* base64.b64encode(<the PNG bytes of an image>).decode()
B64Png(val) == [tag |-> "b64png", val |-> val]
\* "oops": four characters of the base64 alphabet that encode no pickle.
NoPickle == Chars(PyStr("oops"))

IsWhitespace(tok) == tok = NL

\* str.strip(): leading and trailing whitespace removed.
RECURSIVE StripLeft(_)
StripLeft(text) ==
    IF text # <<>> /\ IsWhitespace(Head(text)) THEN StripLeft(Tail(text)) ELSE text

RECURSIVE StripRight(_)
StripRight(text) ==
    IF text # <<>> /\ IsWhitespace(text[Len(text)])
    THEN StripRight(SubSeq(text, 1, Len(text) - 1))
    ELSE text

Strip(text) == StripRight(StripLeft(text))

\* pickle.loads(base64.b64decode(data)): the value, or the exception raised
\* when data is not exactly one encoded pickle. b64decode drops characters
\* outside its alphabet and fails on wrong padding; pickle.loads fails on
\* no bytes and on bytes that start no pickle.
LoadsB64(data) ==
    IF Len(data) = 1 /\ data[1].tag = "b64pickle"
    THEN [exc |-> "", val |-> data[1].val]
    ELSE IF data = <<>>
    THEN [exc |-> "EOFError", val |-> PyNone]
    ELSE IF Head(data) = NoPickle
    THEN [exc |-> "UnpicklingError", val |-> PyNone]
    ELSE [exc |-> "binascii.Error", val |-> PyNone]

\* "".join(outputs)
RECURSIVE Join(_)
Join(outputs) ==
    IF outputs = <<>> THEN <<>> ELSE Head(outputs) \o Join(Tail(outputs))

(***************************************************************************)
(* The kernel's namespace and the mappings sent to it.                     *)
(***************************************************************************)
Names == {"a", "x", "vars_dict", "_result", "pickle", "base64"}

EmptyNamespace == [n \in Names |-> Undef]

\* The mappings passed to send_variables_to_kernel (and as initial_state):
\* 1 is {"a": 7}, 2 is {"a": 2, "x": 1}.
MappingIds == {1, 2}

Mapping(i) ==
    [n \in Names |->
        CASE i = 1 /\ n = "a" -> PyInt(7)
          [] i = 2 /\ n = "a" -> PyInt(2)
          [] i = 2 /\ n = "x" -> PyInt(1)
          [] OTHER -> Undef]

Keys(i) == {n \in Names : Mapping(i)[n] # Undef}

Lookup(ns, name) == IF name \in DOMAIN ns THEN ns[name] ELSE Undef

(***************************************************************************)
(* Code: a code string is a sequence of lines, a line a sequence of        *)
(* statements joined by "; ". An empty line is the empty sequence.         *)
(***************************************************************************)
Expr(ek, name, val, tag) == [ek |-> ek, name |-> name, val |-> val, tag |-> tag]
NoExpr == Expr("none", "", PyNone, "")
Lit(n) == Expr("lit", "", PyInt(n), "")
StrLit(t) == Expr("lit", "", PyStr(t), "")
Var(name) == Expr("var", name, PyNone, "")
\* name + n
Add(name, n) == Expr("add", name, PyInt(n), "")
\* the call print('t') used as an expression: writes t, is None
PrintCall(t) == Expr("printcall", "", PyStr(t), "")
\* the call print('RESULT_PICKLE:oops') used as an expression
PrintSentinelCall == Expr("printsentinel", "", PyNone, "")
\* pickle.loads(base64.b64decode('<tok>'))
LoadsLiteral(tok) == Expr("loads", "", tok.val, tok.tag)
\* text that is no expression, e.g.  1); print('hi'
Malformed == Expr("malformed", "", PyNone, "")

Stmt(k, name, e) == [k |-> k, name |-> name, e |-> e]
Assign(name, e) == Stmt("assign", name, e)
PrintStmt(e) == Stmt("print", "", e)
FinalAnswerCall(e) == Stmt("final_answer", "", e)
\* print('broken   (an unterminated string)
Broken == Stmt("broken", "", NoExpr)
\* while True: pass
Loop == Stmt("loop", "", NoExpr)
\* import pickle, base64
ImportStmt == Stmt("import", "", NoExpr)
\* globals().update(vars_dict)
UpdateGlobals == Stmt("update", "vars_dict", NoExpr)
\* print("RESULT_PICKLE:" + base64.b64encode(pickle.dumps(e)).decode())
PrintPickle(e) == Stmt("print_pickle", "", e)
\* !pip install <package>
PipInstall(pkg) == Stmt("pip", pkg, NoExpr)
\* print("IMAGE_BASE64:" + encoded), encoded the base64 text of a PNG
PrintImage == Stmt("print_image", "", NoExpr)

\* Whether the text of the statement ends with ")".
EndsWithParen(st) ==
    \/ st.k \in {"print", "final_answer", "update", "print_pickle", "print_image"}
    \/ st.k = "assign" /\ st.e.ek \in {"printcall", "printsentinel", "loads"}

(***************************************************************************)
(* The final-answer pattern and the code the executor generates.           *)
(***************************************************************************)
\* re.compile(r"^final_answer\((.*)\)$").match(code): the string starts with
\* "final_answer(", ends with ")" (or ")" and one newline), and holds no
\* newline in between, "." matching none.
final_answer_pattern(code) ==
    /\ Len(code) \in {1, 2}
    /\ Len(code) = 2 => code[2] = <<>>
    /\ code[1] # <<>>
    /\ code[1][1].k = "final_answer"
    /\ EndsWithParen(code[1][Len(code[1])])

\* match.group(1): the text between the first "(" and the last ")". It is
\* the argument when the line is the single call, and otherwise text such as
\*   1); print('hi'
group1(code) == IF Len(code[1]) = 1 THEN code[1][1].e ELSE Malformed

\* The code wrapped around the final-answer expression (lines 129-133).
WrappedCode(result_expr) ==
    << <<>>,
       <<ImportStmt>>,
       <<Assign("_result", result_expr)>>,
       <<PrintPickle(Var("_result"))>>,
       <<>> >>

\* A loader that unpickles the mapping and never merges it.
SendVariablesCodeNoUpdate(i) ==
    << <<>>,
       <<ImportStmt>>,
       <<Assign("vars_dict", LoadsLiteral(B64Pickle(PyDict(i))))>>,
       <<>> >>

\* The loader of send_variables_to_kernel (lines 179-184).
SendVariablesCode(i) ==
    << <<>>,
       <<ImportStmt>>,
       <<Assign("vars_dict", LoadsLiteral(B64Pickle(PyDict(i))))>>,
       <<UpdateGlobals>>,
       <<>> >>

\* The snippet of get_variable_from_kernel (lines 191-194).
GetVariableCode(var_name) ==
    << <<>>,
       <<ImportStmt>>,
       <<PrintPickle(Var(var_name))>>,
       <<>> >>

\* The install command of line 98.
InstallCode(package) == << <<PipInstall(package)>> >>

(***************************************************************************)
(* The code actions the caller submits.                                    *)
(***************************************************************************)
\* x = 2; final_answer(x + 3)
CodeAssignThenFinal == << <<Assign("x", Lit(2)), FinalAnswerCall(Add("x", 3))>> >>
\* final_answer(a + 1)
CodeFinalAPlus1 == << <<FinalAnswerCall(Add("a", 1))>> >>
\* print('hi')
CodePrintHi == << <<PrintStmt(StrLit("hi"))>> >>
\* print('broken
CodeBroken == << <<Broken>> >>
\* while True: pass
CodeLoop == << <<Loop>> >>
\* final_answer(print('hi'))
CodeFinalOfPrint == << <<FinalAnswerCall(PrintCall("hi"))>> >>

\* print('hi'); print(x)
CodePrintThenX == << <<PrintStmt(StrLit("hi")), PrintStmt(Var("x"))>> >>
\* print("IMAGE_BASE64:" + encoded)
CodePrintImage == << <<PrintImage>> >>
\* final_answer(print('RESULT_PICKLE:oops'))
CodeFinalOfSentinelPrint == << <<FinalAnswerCall(PrintSentinelCall)>> >>

CodeActions ==
    { CodeAssignThenFinal, CodeFinalAPlus1, CodePrintHi, CodeBroken, CodeLoop,
      CodeFinalOfPrint, CodePrintThenX, CodePrintImage, CodeFinalOfSentinelPrint }

\* The names get_variable_from_kernel is asked for.
VarNames == {"a", "x"}

\* Whether the last statement of the code is a final_answer(...) call.
EndsInFinalAnswer(code) ==
    LET nonEmpty == {i \in 1..Len(code) : code[i] # <<>>}
        last == code[CHOOSE i \in nonEmpty : \A j \in nonEmpty : j <= i]
    IN  nonEmpty # {} /\ last[Len(last)].k = "final_answer"

\* The argument of that call.
FinalAnswerArgument(code) ==
    LET nonEmpty == {i \in 1..Len(code) : code[i] # <<>>}
        last == code[CHOOSE i \in nonEmpty : \A j \in nonEmpty : j <= i]
    IN  last[Len(last)].e

(***************************************************************************)
(* The kernel: Python semantics of a cell over the namespace. The kernel   *)
(* (IPython) removes leading empty lines and the common indentation of a   *)
(* cell before it compiles it.                                             *)
(***************************************************************************)
RECURSIVE Flatten(_)
Flatten(code) ==
    IF code = <<>> THEN <<>> ELSE Head(code) \o Flatten(Tail(code))

\* The value of an expression: exc is the exception raised ("" for none),
\* out the text it writes to stdout.
Eval(ns, e) ==
    CASE e.ek = "lit" -> [exc |-> "", val |-> e.val, out |-> <<>>]
      [] e.ek = "var" ->
            IF Lookup(ns, e.name) = Undef
            THEN [exc |-> "NameError", val |-> PyNone, out |-> <<>>]
            ELSE [exc |-> "", val |-> Lookup(ns, e.name), out |-> <<>>]
      [] e.ek = "add" ->
            IF Lookup(ns, e.name) = Undef
            THEN [exc |-> "NameError", val |-> PyNone, out |-> <<>>]
            ELSE IF Lookup(ns, e.name).ty # "int"
            THEN [exc |-> "TypeError", val |-> PyNone, out |-> <<>>]
            ELSE [exc |-> "", val |-> PyInt(Lookup(ns, e.name).v + e.val.v),
                  out |-> <<>>]
      [] e.ek = "printcall" ->
            [exc |-> "", val |-> PyNone, out |-> << <<Chars(e.val), NL>> >>]
      [] e.ek = "printsentinel" ->
            [exc |-> "", val |-> PyNone, out |-> << <<Sentinel, NoPickle, NL>> >>]
      [] e.ek = "loads" ->
            IF Lookup(ns, "pickle").ty # "module" \/ Lookup(ns, "base64").ty # "module"
            THEN [exc |-> "NameError", val |-> PyNone, out |-> <<>>]
            ELSE [exc |-> LoadsB64(<<[tag |-> e.tag, val |-> e.val]>>).exc,
                  val |-> LoadsB64(<<[tag |-> e.tag, val |-> e.val]>>).val,
                  out |-> <<>>]
      [] OTHER -> [exc |-> "SyntaxError", val |-> PyNone, out |-> <<>>]

\* globals().update(d) for the dict d holding mapping i.
UpdateNamespace(ns, i) ==
    [n \in Names |-> IF Mapping(i)[n] # Undef THEN Mapping(i)[n] ELSE ns[n]]

\* One statement: the namespace after it, the exception it raises, the
\* texts it prints (one per print call) and whether it never ends.
ExecStmt(ns, st, pipOk) ==
    LET r == Eval(ns, st.e)
        none == [ns |-> ns, exc |-> "", out |-> <<>>, hang |-> FALSE]
    IN  CASE st.k = "assign" ->
                IF r.exc # "" THEN [none EXCEPT !.exc = r.exc, !.out = r.out]
                ELSE [none EXCEPT !.ns = [ns EXCEPT ![st.name] = r.val], !.out = r.out]
          [] st.k = "print" ->
                IF r.exc # "" THEN [none EXCEPT !.exc = r.exc, !.out = r.out]
                ELSE [none EXCEPT !.out = r.out \o << <<Chars(r.val), NL>> >>]
          [] st.k = "final_answer" ->
                \* the name final_answer is looked up before its argument
                IF Lookup(ns, "final_answer") = Undef
                THEN [none EXCEPT !.exc = "NameError"]
                ELSE [none EXCEPT !.exc = "TypeError"]
          [] st.k = "import" ->
                [none EXCEPT !.ns = [ns EXCEPT !["pickle"] = PyModule("pickle"),
                                               !["base64"] = PyModule("base64")]]
          [] st.k = "update" ->
                IF Lookup(ns, st.name) = Undef THEN [none EXCEPT !.exc = "NameError"]
                ELSE IF Lookup(ns, st.name).ty # "dict" THEN [none EXCEPT !.exc = "TypeError"]
                ELSE [none EXCEPT !.ns = UpdateNamespace(ns, Lookup(ns, st.name).v)]
          [] st.k = "print_pickle" ->
                IF Lookup(ns, "pickle").ty # "module" \/ Lookup(ns, "base64").ty # "module"
                THEN [none EXCEPT !.exc = "NameError"]
                ELSE IF r.exc # "" THEN [none EXCEPT !.exc = r.exc, !.out = r.out]
                ELSE [none EXCEPT !.out = r.out \o << <<Sentinel, B64Pickle(r.val), NL>> >>]
          [] st.k = "pip" ->
                \* a shell escape: a failed command prints and raises nothing
                [none EXCEPT !.out = << <<Chars(PyStr(IF pipOk THEN "Successfully installed"
                                                               ELSE "ERROR: No matching distribution")),
                                          NL>> >>]
          [] st.k = "print_image" ->
                [none EXCEPT !.out = << <<ImageMarker, B64Png(PyImage), NL>> >>]
          [] st.k = "loop" -> [none EXCEPT !.hang = TRUE]
          [] OTHER -> [none EXCEPT !.exc = "SyntaxError"]

\* A cell is compiled as a whole: one statement that does not parse fails
\* the cell before any of it runs.
HasSyntaxError(stmts) ==
    \E i \in 1..Len(stmts) : stmts[i].k = "broken" \/ stmts[i].e.ek = "malformed"

RECURSIVE ExecFrom(_, _, _, _)
ExecFrom(ns, stmts, pipOk, out) ==
    IF stmts = <<>> THEN [ns |-> ns, exc |-> "", out |-> out, hang |-> FALSE]
    ELSE LET r == ExecStmt(ns, Head(stmts), pipOk)
         IN  IF r.exc # "" \/ r.hang
             THEN [ns |-> r.ns, exc |-> r.exc, out |-> out \o r.out, hang |-> r.hang]
             ELSE ExecFrom(r.ns, Tail(stmts), pipOk, out \o r.out)

ExecCell(ns, code, pipOk) ==
    IF HasSyntaxError(Flatten(code))
    THEN [ns |-> ns, exc |-> "SyntaxError", out |-> <<>>, hang |-> FALSE]
    ELSE ExecFrom(ns, Flatten(code), pipOk, <<>>)

(***************************************************************************)
(* Kernel messages (Jupyter messaging protocol, as read at lines 146-165). *)
(***************************************************************************)
Msg(msg_type, parent, text, state) ==
    [msg_type |-> msg_type, parent |-> parent, text |-> text, execution_state |-> state]

\* How the kernel's output stream cuts the printed text into stream
\* messages: it flushes on a timer, so the texts of several print calls may
\* arrive as one message or as one message each.
StreamMsgs(parent, out, merged) ==
    IF out = <<>> THEN <<>>
    ELSE IF merged THEN << Msg("stream", parent, Join(out), "") >>
    ELSE [i \in 1..Len(out) |-> Msg("stream", parent, out[i], "")]

\* The traceback of an error message names the exception.
Traceback(exc) == <<Chars(PyStr(exc))>>

\* The messages the kernel publishes for one execute request.
KernelReplies(parent, r, merged) ==
    <<Msg("status", parent, <<>>, "busy")>>
    \o StreamMsgs(parent, r.out, merged)
    \o (IF r.hang THEN <<>>
        ELSE (IF r.exc # "" THEN <<Msg("error", parent, Traceback(r.exc), "")>> ELSE <<>>)
             \o <<Msg("execute_reply", parent, <<>>, ""),
                  Msg("status", parent, <<>>, "idle")>>)

(***************************************************************************)
(* State.                                                                  *)
(***************************************************************************)
VARIABLES
    stage,          \* position of __init__: "new", "build", ..., "done", "failed"
    attrs,          \* the attributes set on the executor object
    pkgs,           \* additional_imports not yet installed
    istate,         \* the initial_state argument: 0 for None, else a mapping
    initExc,        \* the exception __init__ raised ("" for none)
    container,      \* the Docker container: "none", "running", "removed"
    cleanups,       \* how many times cleanup() has run
    cleanupCaught,  \* the exception the last cleanup() caught and logged
    cleanupRaised,  \* the exception a cleanup() let through ("" for none)
    deleted,        \* __del__ has run
    wsOpen,         \* the websocket connection is up
    wsq,            \* messages the kernel sent that ws.recv() has not returned yet
    kq,             \* execute requests the kernel has not started yet
    kout,           \* messages of the running request not yet published
    khang,          \* the kernel is in a cell that never ends
    ns,             \* the kernel's top-level namespace
    nextId,         \* the next fresh msg_id (uuid4)
    pc,             \* "ready", or "recv" inside the read loop of run_code
    call,           \* the locals of the run_code call in progress; nsBefore and
                    \* sentinel (the text of the last message of this request
                    \* that starts with the sentinel) are history only
    hist            \* the finished calls of the user, in order, with outcomes

\* The other objects of the package: executors constructed side by side, and
\* the step store of memory.py and logger.py.
VARIABLES
    peers,          \* two DockerExecutor objects of one process, by index
    steps,          \* AgentMemory.steps / AgentLogger.steps
    logged,         \* history: the last call on the steps, when it was a
                    \* log_step or a reset, and the store before it
    lastProj,       \* history: the last calls on the steps, when they were
                    \* projections with the same flags
    chat_messages,  \* AgentMemory.chat_messages, the raw model responses
    projected,      \* history: the last to_messages call on a step object
    callback,       \* history: the last call on the steps, when it was a
                    \* step callback, and the store before it
    dumped          \* history: the last call on the steps, when it was a
                    \* serialisation, and what it returned

executorVars ==
    <<stage, attrs, pkgs, istate, initExc, container, cleanups, cleanupCaught,
      cleanupRaised, deleted, wsOpen, wsq, kq, kout, khang, ns, nextId, pc,
      call, hist>>

peerVars == <<peers>>
memoryVars == <<steps, logged, lastProj, chat_messages, projected, callback, dumped>>

vars == <<executorVars, peerVars, memoryVars>>

kernelVars == <<kq, kout, khang, ns>>
teardownVars == <<cleanups, cleanupCaught, cleanupRaised, deleted>>
initVars == <<stage, attrs, pkgs, istate, initExc>>

NoCall ==
    [op |-> "", code |-> <<>>, mid |-> 0, name |-> "", final |-> FALSE, msg_id |-> 0,
     outputs |-> <<>>, result |-> PyNone, waiting |-> FALSE, nsBefore |-> EmptyNamespace,
     sentinel |-> <<>>, streams |-> <<>>]

\* The arguments of the constructor that are tried: no extra package and no
\* initial state, or the package "pillow" and the initial state {"a": 7}.
ConstructorArgs ==
    { [additional_imports |-> <<>>, initial_state |-> 0],
      [additional_imports |-> <<"pillow">>, initial_state |-> 1] }

\* An executor object of the side-by-side model before its constructor runs.
NewPeer ==
    [stage |-> "new", attrs |-> {}, port |-> 0, container |-> "none",
     ns |-> EmptyNamespace, initExc |-> ""]

\* The last call was no log_step and no reset; the last call was no
\* projection.
NoLogStep ==
    [op |-> "", called |-> FALSE, position |-> PyNone, step |-> <<>>, before |-> <<>>,
     exc |-> ""]
NoProjection ==
    [valid |-> FALSE, summary_mode |-> FALSE, return_memory |-> FALSE,
     before |-> <<>>, first |-> <<>>, last |-> <<>>, calls |-> 0]

\* No to_messages call on a step object yet; the last call was no step
\* callback; the last call was no serialisation.
NoStepProjection ==
    [called |-> FALSE, step |-> <<>>, summary_mode |-> FALSE, return_memory |-> FALSE,
     messages |-> <<>>]
NoCallback ==
    [called |-> FALSE, script |-> "", driver |-> FALSE, memory_step |-> <<>>,
     before |-> <<>>, exc |-> ""]
NoDump == [called |-> FALSE, method |-> "", entries |-> <<>>, chat_messages |-> <<>>]

Init ==
    /\ peers = [e \in {1, 2} |-> NewPeer]
    /\ steps = <<>>
    /\ logged = NoLogStep
    /\ lastProj = NoProjection
    /\ chat_messages = <<>>
    /\ projected = NoStepProjection
    /\ callback = NoCallback
    /\ dumped = NoDump
    /\ stage = "new"
    /\ attrs = {}
    /\ pkgs = <<>>
    /\ istate = 0
    /\ initExc = ""
    /\ container = "none"
    /\ cleanups = 0
    /\ cleanupCaught = ""
    /\ cleanupRaised = ""
    /\ deleted = FALSE
    /\ wsOpen = FALSE
    /\ wsq = <<>>
    /\ kq = <<>>
    /\ kout = <<>>
    /\ khang = FALSE
    /\ ns = EmptyNamespace
    /\ nextId = 1
    /\ pc = "ready"
    /\ call = NoCall
    /\ hist = <<>>

(***************************************************************************)
(* cleanup (lines 228-239).                                                *)
(***************************************************************************)
\* The classes "except Exception" catches: every exception of the model.
ExceptionSubclasses ==
    {"AttributeError", "NotFound", "RuntimeError", "NameError", "UnboundLocalError",
     "TypeError", "binascii.Error", "UnpicklingError", "EOFError",
     "WebSocketConnectionClosedException",
     "ConnectionError", "DockerException"}

\* An except clause that catches Docker's errors only.
CleanupCatchesDockerOnly(exc) == exc \in {"NotFound", "DockerException"}

\* except Exception as e (line 238)
CleanupCatches(exc) == exc \in ExceptionSubclasses

\* hasattr(self, name)
hasattr(as, name) == name \in as

\* The exception raised inside the try block of cleanup: self.session is
\* read when kernel_id is set; container.stop() of a container that is gone
\* raises docker.errors.NotFound.
CleanupTryExc(as, cont) ==
    IF hasattr(as, "kernel_id") /\ ~hasattr(as, "session") THEN "AttributeError"
    ELSE IF hasattr(as, "container") /\ cont # "running" THEN "NotFound"
    ELSE ""

\* The container after cleanup: stopped and removed when lines 235-236 ran.
CleanupContainer(as, cont) ==
    IF CleanupTryExc(as, cont) = "" /\ hasattr(as, "container") THEN "removed" ELSE cont

\* cleanup() as a step: the teardown variables and the container.
cleanup(as) ==
    /\ cleanups' = cleanups + 1
    /\ container' = CleanupContainer(as, container)
    /\ wsOpen' = (wsOpen /\ CleanupContainer(as, container) = "running")
    /\ IF CleanupTryExc(as, container) = "" \/ CleanupCatches(CleanupTryExc(as, container))
       THEN /\ cleanupCaught' = CleanupTryExc(as, container)
            /\ cleanupRaised' = cleanupRaised
       ELSE /\ cleanupCaught' = ""
            /\ cleanupRaised' = CleanupTryExc(as, container)

(***************************************************************************)
(* __init__ (lines 30-109).                                                *)
(***************************************************************************)
\* The except clause of lines 106-109: cleanup(), then RuntimeError.
InitHandler(as) ==
    /\ cleanup(as)
    /\ stage' = "failed"
    /\ attrs' = as
    /\ initExc' = "RuntimeError"
    /\ UNCHANGED <<pkgs, istate, deleted>>

\* Lines 30-39: the constructor is called; docker.from_env() may fail, and
\* that error is raised outside the try block of line 42.
InitDocker ==
    /\ stage = "new"
    /\ \E args \in ConstructorArgs, ok \in BOOLEAN :
          /\ pkgs' = args.additional_imports
          /\ istate' = args.initial_state
          /\ IF ok
             THEN /\ stage' = "build"
                  /\ attrs' = {"logger", "host", "port", "final_answer_pattern", "client"}
                  /\ initExc' = ""
             ELSE /\ stage' = "failed"
                  /\ attrs' = {"logger", "host", "port", "final_answer_pattern"}
                  /\ initExc' = "RuntimeError"
    /\ UNCHANGED <<container, teardownVars, wsOpen, wsq, kernelVars, nextId, pc, call, hist>>
    /\ UNCHANGED <<peerVars, memoryVars>>

\* Lines 42-68: build the image and run the container.
InitBuildRun ==
    /\ stage = "build"
    /\ \E ok \in BOOLEAN :
          IF ok
          THEN /\ stage' = "create_kernel"
               /\ attrs' = attrs \cup {"container"}
               /\ container' = "running"
               /\ UNCHANGED <<pkgs, istate, initExc, teardownVars, wsOpen>>
          ELSE InitHandler(attrs)
    /\ UNCHANGED <<wsq, kernelVars, nextId, pc, call, hist>>
    /\ UNCHANGED <<peerVars, memoryVars>>

\* Lines 71-88: create the kernel over HTTP.
InitCreateKernel ==
    /\ stage = "create_kernel"
    /\ \E ok \in BOOLEAN :
          IF ok
          THEN /\ stage' = "connect"
               /\ attrs' = attrs \cup {"base_url", "kernel_id"}
               /\ UNCHANGED <<pkgs, istate, initExc, container, teardownVars, wsOpen>>
          ELSE InitHandler(attrs \cup {"base_url"})
    /\ UNCHANGED <<wsq, kernelVars, nextId, pc, call, hist>>
    /\ UNCHANGED <<peerVars, memoryVars>>

\* Lines 91-94: open the websocket.
InitConnectWs ==
    /\ stage = "connect"
    /\ \E ok \in BOOLEAN :
          IF ok
          THEN /\ stage' = "install"
               /\ attrs' = attrs \cup {"ws"}
               /\ wsOpen' = TRUE
               /\ UNCHANGED <<pkgs, istate, initExc, container, teardownVars>>
          ELSE InitHandler(attrs)
    /\ UNCHANGED <<wsq, kernelVars, nextId, pc, call, hist>>
    /\ UNCHANGED <<peerVars, memoryVars>>

(***************************************************************************)
(* run_code (lines 120-173).                                               *)
(***************************************************************************)
Return(result, log, flag) ==
    [status |-> "return", result |-> result, log |-> log, flag |-> flag,
     exc |-> "", text |-> <<>>]

Raise(exc, text) ==
    [status |-> "raise", result |-> PyNone, log |-> <<>>, flag |-> FALSE,
     exc |-> exc, text |-> text]

\* A run_code that looks for the final_answer call at the end of the code
\* and wraps its argument whatever the mode.
RunCodeEntryWrapsLastCall(code_action, return_final_answer) ==
    IF EndsInFinalAnswer(code_action)
    THEN [exc |-> "", wrapped_code |-> WrappedCode(FinalAnswerArgument(code_action))]
    ELSE [exc |-> "", wrapped_code |-> code_action]

\* Lines 124-135: the code that is sent. With return_final_answer set and no
\* match, neither branch assigns wrapped_code, and line 138 reads it.
RunCodeEntry(code_action, return_final_answer) ==
    IF return_final_answer
    THEN IF final_answer_pattern(code_action)
         THEN [exc |-> "", wrapped_code |-> WrappedCode(group1(code_action))]
         ELSE [exc |-> "UnboundLocalError", wrapped_code |-> <<>>]
    ELSE [exc |-> "", wrapped_code |-> code_action]

\* A loop that processes every message, whatever request it answers.
IsAnyMessage(c, msg) == TRUE

\* Line 151: only messages whose parent is this request are processed.
IsOwnMessage(c, msg) == msg.parent = c.msg_id

\* A test for the sentinel that leaves out the mode.
IsSentinelStreamAnyMode(return_final_answer, text) ==
    text # <<>> /\ Head(text) = Sentinel

\* Line 156: return_final_answer and text.startswith("RESULT_PICKLE:")
IsSentinelStream(return_final_answer, text) ==
    return_final_answer /\ text # <<>> /\ Head(text) = Sentinel

\* Lines 157-158: the payload after the sentinel, stripped and decoded.
DecodeResult(text) == LoadsB64(Strip(Tail(text)))

\* A stream branch that forgets the text.
AppendOutputDropped(outputs, text) == outputs

\* Line 161: outputs.append(text)
AppendOutput(outputs, text) == Append(outputs, text)

\* A loop that ends on every idle status.
BreaksOnAnyIdle(msg, return_final_answer, waiting_for_idle) ==
    /\ msg.msg_type = "status"
    /\ msg.execution_state = "idle"

\* Lines 165-167: an idle status ends the loop, in final-answer mode only
\* once the sentinel was seen.
BreaksOnIdle(msg, return_final_answer, waiting_for_idle) ==
    /\ msg.msg_type = "status"
    /\ msg.execution_state = "idle"
    /\ ~return_final_answer \/ waiting_for_idle

\* What the public method hands to its caller from run_code's triple:
\* __call__ all of it (line 118), send_variables_to_kernel nothing (line
\* 185), get_variable_from_kernel the result (lines 195-196).
MethodReturn(op, result, log, flag) ==
    CASE op = "call" -> Return(result, log, flag)
      [] op = "get" -> Return(result, <<>>, FALSE)
      [] OTHER -> Return(PyNone, <<>>, FALSE)

\* run_code ends with outcome o (the except clause of lines 171-173 logs
\* and re-raises): a call of the user is recorded; a call made by __init__
\* continues the constructor, or enters its except clause.
Complete(c, o) ==
    /\ pc' = "ready"
    /\ call' = NoCall
    /\ IF c.op \in {"call", "send", "get"}
       THEN /\ hist' = Append(hist,
                   [op |-> c.op, code |-> c.code, mid |-> c.mid, name |-> c.name,
                    status |-> o.status, result |-> o.result, log |-> o.log,
                    flag |-> o.flag, exc |-> o.exc, text |-> o.text,
                    nsBefore |-> c.nsBefore, nsAfter |-> ns,
                    captured |-> Join(c.outputs), sentinel |-> c.sentinel,
                    streams |-> c.streams, final |-> c.final])
            /\ UNCHANGED <<initVars, container, teardownVars, wsOpen>>
       ELSE IF o.status = "raise"
       THEN /\ InitHandler(attrs)
            /\ hist' = hist
       ELSE /\ stage' = (IF c.op = "install" THEN "install" ELSE "finish")
            /\ pkgs' = (IF c.op = "install" THEN Tail(pkgs) ELSE pkgs)
            /\ hist' = hist
            /\ UNCHANGED <<attrs, istate, initExc, container, teardownVars, wsOpen>>

\* Lines 124-143: run_code up to its first ws.recv(). _send_execute_request
\* (lines 198-226) draws a fresh msg_id and sends the request.
StartCall(op, code, mid, name, return_final_answer) ==
    LET c == [NoCall EXCEPT !.op = op, !.code = code, !.mid = mid, !.name = name,
                            !.final = return_final_answer, !.msg_id = nextId,
                            !.nsBefore = ns]
        e == RunCodeEntry(code, return_final_answer)
    IN  IF e.exc # ""
        THEN Complete(c, Raise(e.exc, <<>>)) /\ UNCHANGED <<kq, nextId>>
        ELSE IF ~wsOpen
        THEN /\ Complete(c, Raise("WebSocketConnectionClosedException", <<>>))
             /\ UNCHANGED <<kq, nextId>>
        ELSE /\ kq' = Append(kq, [id |-> nextId, code |-> e.wrapped_code])
             /\ nextId' = nextId + 1
             /\ pc' = "recv"
             /\ call' = c
             /\ UNCHANGED <<hist, initVars, container, teardownVars, wsOpen>>

\* One iteration of the loop of lines 145-167, with what follows the loop
\* when it ends.
Recv ==
    /\ pc = "recv"
    /\ wsOpen
    /\ wsq # <<>>
    /\ wsq' = Tail(wsq)
    /\ LET msg == Head(wsq)
           \* history: the stream texts of this request, in arrival order,
           \* and the last of them that starts with the sentinel
           c == IF msg.parent = call.msg_id /\ msg.msg_type = "stream"
                THEN IF msg.text # <<>> /\ Head(msg.text) = Sentinel
                     THEN [call EXCEPT !.sentinel = msg.text,
                                       !.streams = Append(@, msg.text)]
                     ELSE [call EXCEPT !.streams = Append(@, msg.text)]
                ELSE call
           continue ==
               /\ call' = c
               /\ UNCHANGED <<pc, hist, initVars, container, teardownVars, wsOpen>>
       IN  IF ~IsOwnMessage(c, msg) THEN continue
           ELSE IF msg.msg_type = "stream"
           THEN IF IsSentinelStream(c.final, msg.text)
                THEN IF DecodeResult(msg.text).exc # ""
                     THEN Complete(c, Raise(DecodeResult(msg.text).exc, <<>>))
                     ELSE /\ call' = [c EXCEPT !.result = DecodeResult(msg.text).val,
                                               !.waiting = TRUE]
                          /\ UNCHANGED <<pc, hist, initVars, container, teardownVars, wsOpen>>
                ELSE /\ call' = [c EXCEPT !.outputs = AppendOutput(@, msg.text)]
                     /\ UNCHANGED <<pc, hist, initVars, container, teardownVars, wsOpen>>
           ELSE IF msg.msg_type = "error"
           THEN Complete(c, Raise("RuntimeError", msg.text))
           ELSE IF BreaksOnIdle(msg, c.final, c.waiting)
           THEN Complete(c, MethodReturn(c.op, c.result, Join(c.outputs), c.final))
           ELSE continue
    /\ UNCHANGED <<kernelVars, nextId>>
    /\ UNCHANGED <<peerVars, memoryVars>>

\* ws.recv() on a connection that is gone raises.
RecvClosed ==
    /\ pc = "recv"
    /\ ~wsOpen
    /\ Complete(call, Raise("WebSocketConnectionClosedException", <<>>))
    /\ UNCHANGED <<wsq, kernelVars, nextId>>
    /\ UNCHANGED <<peerVars, memoryVars>>

(***************************************************************************)
(* The rest of __init__.                                                   *)
(***************************************************************************)
\* Lines 97-98: install the next package with execute_code.
InitInstall ==
    /\ stage = "install"
    /\ pc = "ready"
    /\ IF pkgs = <<>>
       THEN /\ stage' = "push"
            /\ UNCHANGED <<attrs, pkgs, istate, initExc, container, teardownVars, wsOpen,
                           kq, nextId, pc, call, hist>>
       ELSE StartCall("install", InstallCode(Head(pkgs)), 0, Head(pkgs), FALSE)
    /\ UNCHANGED <<wsq, kout, khang, ns>>
    /\ UNCHANGED <<peerVars, memoryVars>>

\* Lines 101-102: push the initial state, if any.
InitPush ==
    /\ stage = "push"
    /\ pc = "ready"
    /\ IF istate = 0
       THEN /\ stage' = "finish"
            /\ UNCHANGED <<attrs, pkgs, istate, initExc, container, teardownVars, wsOpen,
                           kq, nextId, pc, call, hist>>
       ELSE StartCall("init_state", SendVariablesCode(istate), istate, "", FALSE)
    /\ UNCHANGED <<wsq, kout, khang, ns>>
    /\ UNCHANGED <<peerVars, memoryVars>>

\* Line 104: the constructor returns.
InitFinish ==
    /\ stage = "finish"
    /\ stage' = "done"
    /\ UNCHANGED <<attrs, pkgs, istate, initExc, container, teardownVars, wsOpen, wsq,
                   kernelVars, nextId, pc, call, hist>>
    /\ UNCHANGED <<peerVars, memoryVars>>

(***************************************************************************)
(* The public methods.                                                     *)
(***************************************************************************)
\* The caller uses the executor, and tears it down when it is done with it.
CanCall ==
    /\ stage = "done"
    /\ cleanups = 0
    /\ ~deleted
    /\ pc = "ready"
    /\ Len(hist) < MaxCalls

\* __call__ (lines 116-118)
Execute ==
    /\ CanCall
    /\ \E code \in CodeActions :
          StartCall("call", code, 0, "", final_answer_pattern(code))
    /\ UNCHANGED <<wsq, kout, khang, ns>>
    /\ UNCHANGED <<peerVars, memoryVars>>

\* send_variables_to_kernel (lines 175-185)
send_variables_to_kernel ==
    /\ CanCall
    /\ \E i \in MappingIds : StartCall("send", SendVariablesCode(i), i, "", FALSE)
    /\ UNCHANGED <<wsq, kout, khang, ns>>
    /\ UNCHANGED <<peerVars, memoryVars>>

\* get_variable_from_kernel (lines 187-196)
get_variable_from_kernel ==
    /\ CanCall
    /\ \E name \in VarNames : StartCall("get", GetVariableCode(name), 0, name, TRUE)
    /\ UNCHANGED <<wsq, kout, khang, ns>>
    /\ UNCHANGED <<peerVars, memoryVars>>

\* An explicit call of cleanup() (lines 228-239).
Cleanup ==
    /\ stage = "done"
    /\ ~deleted
    /\ pc = "ready"
    /\ cleanups < MaxCleanups
    /\ cleanup(attrs)
    /\ UNCHANGED <<initVars, deleted, wsq, kernelVars, nextId, pc, call, hist>>
    /\ UNCHANGED <<peerVars, memoryVars>>

\* __del__ (lines 241-243): also runs for an object whose __init__ raised.
Del ==
    /\ stage \in {"done", "failed"}
    /\ ~deleted
    /\ pc = "ready"
    /\ cleanup(attrs)
    /\ deleted' = TRUE
    /\ UNCHANGED <<initVars, wsq, kernelVars, nextId, pc, call, hist>>
    /\ UNCHANGED <<peerVars, memoryVars>>

(***************************************************************************)
(* The environment: the kernel and the connection.                         *)
(***************************************************************************)
\* The kernel takes the next request and runs its cell.
KernelStart ==
    /\ container = "running"
    /\ kq # <<>>
    /\ kout = <<>>
    /\ ~khang
    /\ \E merged \in BOOLEAN, pipOk \in BOOLEAN :
          LET r == ExecCell(ns, Head(kq).code, pipOk)
          IN  /\ ns' = r.ns
              /\ khang' = r.hang
              /\ kout' = KernelReplies(Head(kq).id, r, merged)
    /\ kq' = Tail(kq)
    /\ UNCHANGED <<initVars, container, teardownVars, wsOpen, wsq, nextId, pc, call, hist>>
    /\ UNCHANGED <<peerVars, memoryVars>>

\* The kernel publishes its next message on the websocket.
KernelPublish ==
    /\ container = "running"
    /\ kout # <<>>
    /\ kout' = Tail(kout)
    /\ wsq' = (IF wsOpen THEN Append(wsq, Head(kout)) ELSE wsq)
    /\ UNCHANGED <<initVars, container, teardownVars, wsOpen, kq, khang, ns, nextId, pc,
                   call, hist>>
    /\ UNCHANGED <<peerVars, memoryVars>>

\* The connection drops.
WsClose ==
    /\ wsOpen
    /\ wsOpen' = FALSE
    /\ wsq' = <<>>
    /\ UNCHANGED <<initVars, container, teardownVars, kernelVars, nextId, pc, call, hist>>
    /\ UNCHANGED <<peerVars, memoryVars>>

Next ==
    \/ InitDocker
    \/ InitBuildRun
    \/ InitCreateKernel
    \/ InitConnectWs
    \/ InitInstall
    \/ InitPush
    \/ InitFinish
    \/ Execute
    \/ send_variables_to_kernel
    \/ get_variable_from_kernel
    \/ Recv
    \/ RecvClosed
    \/ Cleanup
    \/ Del
    \/ KernelStart
    \/ KernelPublish
    \/ WsClose

Spec == Init /\ [][Next]_vars

(***************************************************************************)
(* A second thread: cleanup() called while run_code is in its read loop.   *)
(***************************************************************************)
\* cleanup() (lines 228-239) while the caller's thread is blocked in
\* ws.recv() (line 146): cleanup takes no lock and run_code holds none.
CleanupDuringCall ==
    /\ stage = "done"
    /\ ~deleted
    /\ pc = "recv"
    /\ cleanups < MaxCleanups
    /\ cleanup(attrs)
    /\ UNCHANGED <<initVars, deleted, wsq, kernelVars, nextId, pc, call, hist>>
    /\ UNCHANGED <<peerVars, memoryVars>>

NextConcurrent ==
    \/ Next
    \/ CleanupDuringCall

SpecConcurrent == Init /\ [][NextConcurrent]_vars

(***************************************************************************)
(* Two executors of one process, constructed side by side (__init__, lines *)
(* 18-109). Each has its own container, kernel and namespace; the host     *)
(* address the container's port is published on is a resource of the host. *)
(***************************************************************************)
Executors == {1, 2}

\* The port argument: the default, 8888 (line 25), or another one.
Ports == {8888, 8889}

\* The message of the Docker API error for a host port that is in use.
PortAllocated == "port is already allocated"

\* containers.run(..., ports={"8888/tcp": (host, port)}) (lines 62-64) binds
\* host:port; the bind fails while a running container holds it. host is
\* the default, 127.0.0.1, for both executors.
PortTaken(e) ==
    \E o \in Executors \ {e} :
        peers[o].container = "running" /\ peers[o].port = peers[e].port

\* Lines 30-39 for executor e, with its port argument.
PeerInitDocker(e) ==
    /\ peers[e].stage = "new"
    /\ \E port \in Ports :
          peers' = [peers EXCEPT ![e] =
                       [@ EXCEPT !.stage = "build", !.port = port,
                                 !.attrs = {"logger", "host", "port",
                                            "final_answer_pattern", "client"}]]
    /\ UNCHANGED <<executorVars, memoryVars>>

\* Lines 42-68 for executor e: the container is started, or the except
\* clause of lines 106-109 runs cleanup() and raises. When the bind fails
\* the container was created and not started, and self.container is not set.
PeerInitBuildRun(e) ==
    /\ peers[e].stage = "build"
    /\ \E ok \in BOOLEAN :
          peers' = [peers EXCEPT ![e] =
              IF ok /\ ~PortTaken(e)
              THEN [@ EXCEPT !.stage = "create_kernel", !.container = "running",
                             !.attrs = @ \cup {"container"}]
              ELSE [@ EXCEPT !.stage = "failed",
                             !.container = IF PortTaken(e) THEN "created" ELSE "none",
                             !.initExc = IF PortTaken(e) THEN PortAllocated
                                         ELSE "DockerException"]]
    /\ UNCHANGED <<executorVars, memoryVars>>

\* Lines 71-104 for executor e: the kernel is created and the websocket
\* opened, or the except clause runs cleanup() and raises.
PeerInitKernel(e) ==
    /\ peers[e].stage = "create_kernel"
    /\ \E ok \in BOOLEAN :
          peers' = [peers EXCEPT ![e] =
              IF ok
              THEN [@ EXCEPT !.stage = "done",
                             !.attrs = @ \cup {"base_url", "kernel_id", "ws"}]
              ELSE [@ EXCEPT !.stage = "failed",
                             !.attrs = @ \cup {"base_url"},
                             !.container = CleanupContainer(peers[e].attrs \cup {"base_url"},
                                                            peers[e].container),
                             !.initExc = "ConnectionError"]]
    /\ UNCHANGED <<executorVars, memoryVars>>

\* A call of executor e that runs to its end (lines 116-169): its effect on
\* the namespace of e's kernel.
PeerExecute(e) ==
    /\ peers[e].stage = "done"
    /\ peers[e].container = "running"
    /\ \E code \in CodeActions :
          LET entry == RunCodeEntry(code, final_answer_pattern(code))
          IN  /\ entry.exc = ""
              /\ peers' = [peers EXCEPT ![e].ns =
                               ExecCell(peers[e].ns, entry.wrapped_code, TRUE).ns]
    /\ UNCHANGED <<executorVars, memoryVars>>

\* cleanup() of executor e (lines 228-239).
PeerCleanup(e) ==
    /\ peers[e].stage \in {"done", "failed"}
    /\ peers' = [peers EXCEPT ![e].container =
                     CleanupContainer(peers[e].attrs, peers[e].container)]
    /\ UNCHANGED <<executorVars, memoryVars>>

NextPeers ==
    \E e \in Executors :
        \/ PeerInitDocker(e)
        \/ PeerInitBuildRun(e)
        \/ PeerInitKernel(e)
        \/ PeerExecute(e)
        \/ PeerCleanup(e)

SpecPeers == Init /\ [][NextPeers]_vars

(***************************************************************************)
(* The step store (memory.py, logger.py): step records, their projection   *)
(* to chat messages, and the store's methods.                              *)
(***************************************************************************)
\* Bound of the model: the number of steps appended to the store.
MaxSteps == 3
\* Bound of the model: the number of projections of an unchanged store with
\* the same flags.
MaxProjections == 2

\* An optional attribute: None, or a value.
None == [isNone |-> TRUE, v |-> <<>>]
Some(x) == [isNone |-> FALSE, v |-> x]

\* One piece of text.
T(t) == <<Chars(PyStr(t))>>

\* A chat message. content is a list of parts: a str is the one part "str",
\* an object handed on as it is the one part "object", and a list of dicts
\* the parts {"type": "text"} and {"type": "image"}.
Message(role, content) == [role |-> role, content |-> content]
Part(type, text) == [type |-> type, text |-> text]
StrContent(text) == <<Part("str", text)>>
TextPart(text) == Part("text", text)
ImagePart(image) == Part("image", image)

\* ToolCall(name, arguments, id)
ToolCall(name, arguments, id) == [name |-> name, arguments |-> arguments, id |-> id]

\* str([tc.dict() for tc in tool_calls]) (ToolCall.dict, memory.py lines 23-31)
RECURSIVE StrOfDicts(_)
StrOfDicts(tool_calls) ==
    IF tool_calls = <<>> THEN <<>>
    ELSE T("{'id': ") \o Head(tool_calls).id
         \o T(", 'type': 'function', 'function': {'name': ") \o Head(tool_calls).name
         \o T(", 'arguments': ") \o Head(tool_calls).arguments \o T("}}")
         \o (IF Tail(tool_calls) = <<>> THEN <<>> ELSE T(", "))
         \o StrOfDicts(Tail(tool_calls))

StrOfToolCalls(tool_calls) == T("[") \o StrOfDicts(tool_calls) \o T("]")

\* A step record: cls and module name its class, the rest its attributes
\* (None for an attribute the class does not have).
Step(cls, module) ==
    [cls |-> cls, module |-> module, system_prompt |-> None, task |-> None,
     task_images |-> None, plan |-> None, facts |-> None, agent_memory |-> None,
     tool_calls |-> None, error |-> None, llm_output |-> None, observations |-> None,
     observations_images |-> None, step_number |-> None]

SystemPromptStep(module, system_prompt) ==
    [Step("SystemPromptStep", module) EXCEPT !.system_prompt = Some(system_prompt)]

TaskStep(module, task, task_images) ==
    [Step("TaskStep", module) EXCEPT !.task = Some(task), !.task_images = task_images]

PlanningStep(module, plan, facts) ==
    [Step("PlanningStep", module) EXCEPT !.plan = Some(plan), !.facts = Some(facts)]

\* The retry text appended to an error (memory.py lines 91-95).
ErrorContent(error) ==
    T("Error:") \o <<NL>> \o error
    \o <<NL>> \o T("Now let's retry: take care not to repeat previous errors! If you have retried several times, try a completely different approach.")
    \o <<NL>>

\* A block that carries the id of the last tool call of the step.
CallIdOfLast(tool_calls, text) ==
    T("Call id: ") \o tool_calls[Len(tool_calls)].id \o <<NL>> \o text

\* A block that leaves out the id of the tool call.
CallIdOmitted(tool_calls, text) == text

\* f"Call id: {tool_calls[0].id}\n{text}"
CallIdContent(tool_calls, text) == T("Call id: ") \o tool_calls[1].id \o <<NL>> \o text

\* ActionStep.to_messages of logger.py (lines 80-114).
LoggerActionToMessages(step, summary_mode, return_memory) ==
    (IF ~step.agent_memory.isNone /\ return_memory
     THEN <<Message("system", <<Part("object", step.agent_memory.v)>>)>> ELSE <<>>)
    \o (IF ~step.llm_output.isNone /\ ~summary_mode
        THEN <<Message("assistant", StrContent(Strip(step.llm_output.v)))>> ELSE <<>>)
    \o (IF ~step.tool_calls.isNone
        THEN <<Message("assistant", StrContent(StrOfToolCalls(step.tool_calls.v)))>>
        ELSE <<>>)
    \o (IF ~step.error.isNone
        THEN IF step.tool_calls.isNone
             THEN <<Message("assistant", StrContent(ErrorContent(step.error.v)))>>
             ELSE <<Message("tool-response",
                            StrContent(CallIdContent(step.tool_calls.v,
                                                     ErrorContent(step.error.v))))>>
        ELSE IF ~step.observations.isNone /\ ~step.tool_calls.isNone
        THEN <<Message("tool-response",
                       StrContent(CallIdContent(step.tool_calls.v,
                                                T("Observation:") \o <<NL>>
                                                \o step.observations.v)))>>
        ELSE <<>>)

\* A projection that tests observations before error: a step with both
\* set projects its observation.
ObservationBeforeError(step, summary_mode, return_memory) ==
    LoggerActionToMessages(
        [step EXCEPT !.error = IF step.observations.isNone THEN @ ELSE None],
        summary_mode, return_memory)

\* ActionStep.to_messages of memory.py (lines 73-128).
MemoryActionToMessages(step, summary_mode, return_memory) ==
    (IF ~step.agent_memory.isNone /\ return_memory
     THEN <<Message("system", <<Part("object", step.agent_memory.v)>>)>> ELSE <<>>)
    \o (IF ~step.llm_output.isNone /\ ~summary_mode
        THEN <<Message("assistant", <<TextPart(Strip(step.llm_output.v))>>)>> ELSE <<>>)
    \o (IF ~step.tool_calls.isNone
        THEN <<Message("assistant", <<TextPart(StrOfToolCalls(step.tool_calls.v))>>)>>
        ELSE <<>>)
    \o (IF ~step.error.isNone
        THEN IF step.tool_calls.isNone
             THEN <<Message("assistant", <<TextPart(ErrorContent(step.error.v))>>)>>
             ELSE <<Message("tool-response",
                            StrContent(CallIdContent(step.tool_calls.v,
                                                     ErrorContent(step.error.v))))>>
        ELSE IF ~step.observations.isNone /\ ~step.tool_calls.isNone
        THEN <<Message("tool-response",
                       StrContent(CallIdContent(step.tool_calls.v,
                                                T("Observation:") \o <<NL>>
                                                \o step.observations.v)))>>
        ELSE <<>>)
    \o (IF ~step.observations_images.isNone /\ step.observations_images.v # <<>>
        THEN <<Message("user",
                       <<TextPart(T("Here are the observed images:"))>>
                       \o [i \in 1..Len(step.observations_images.v) |->
                              ImagePart(step.observations_images.v[i])])>>
        ELSE <<>>)

\* A projection whose facts block is not stripped in summary mode.
PlanningSummaryUnstripped(step, summary_mode) ==
    IF summary_mode
    THEN <<Message("assistant", StrContent(T("[FACTS LIST]:") \o <<NL>> \o step.facts.v))>>
    ELSE <<Message("assistant",
                   StrContent(T("[FACTS LIST]:") \o <<NL>> \o Strip(step.facts.v))),
           Message("assistant",
                   StrContent(T("[PLAN]:") \o <<NL>> \o Strip(step.plan.v)))>>

\* PlanningStep.to_messages (logger.py lines 125-133, memory.py lines 136-142)
PlanningToMessages(step, summary_mode) ==
    <<Message("assistant",
              StrContent(T("[FACTS LIST]:") \o <<NL>> \o Strip(step.facts.v)))>>
    \o (IF ~summary_mode
        THEN <<Message("assistant",
                       StrContent(T("[PLAN]:") \o <<NL>> \o Strip(step.plan.v)))>>
        ELSE <<>>)

\* TaskStep.to_messages (logger.py lines 143-145, memory.py lines 150-156)
TaskToMessages(step) ==
    IF step.module = "logger"
    THEN <<Message("user", StrContent(T("New task:") \o <<NL>> \o step.task.v))>>
    ELSE <<Message("user",
                   <<TextPart(T("New task:") \o <<NL>> \o step.task.v)>>
                   \o (IF ~step.task_images.isNone
                       THEN [i \in 1..Len(step.task_images.v) |->
                                ImagePart(step.task_images.v[i])]
                       ELSE <<>>))>>

\* A projection of the system prompt that ignores summary_mode.
SystemPromptKept(step, summary_mode) ==
    <<Message("system", StrContent(step.system_prompt.v))>>

\* SystemPromptStep.to_messages (logger.py lines 155-159, memory.py lines
\* 163-166): memory.py strips the prompt, logger.py does not.
SystemPromptToMessages(step, summary_mode) ==
    IF summary_mode THEN <<>>
    ELSE IF step.module = "logger"
    THEN <<Message("system", StrContent(step.system_prompt.v))>>
    ELSE <<Message("system", <<TextPart(Strip(step.system_prompt.v))>>)>>

\* step_log.to_messages(summary_mode=..., return_memory=...): the method of
\* the step's class.
to_messages(step, summary_mode, return_memory) ==
    CASE step.cls = "SystemPromptStep" -> SystemPromptToMessages(step, summary_mode)
      [] step.cls = "TaskStep" -> TaskToMessages(step)
      [] step.cls = "PlanningStep" -> PlanningToMessages(step, summary_mode)
      [] step.cls = "ActionStep" /\ step.module = "logger" ->
            LoggerActionToMessages(step, summary_mode, return_memory)
      [] OTHER -> MemoryActionToMessages(step, summary_mode, return_memory)

\* The loop of write_inner_memory_from_logs (logger.py lines 220-223).
RECURSIVE InnerMemoryLoop(_, _, _)
InnerMemoryLoop(store, summary_mode, return_memory) ==
    IF store = <<>> THEN <<>>
    ELSE to_messages(Head(store), summary_mode, return_memory)
         \o InnerMemoryLoop(Tail(store), summary_mode, return_memory)

\* A projection whose list of messages outlives the call: each call extends
\* the list the call before it returned.
InnerMemoryKept(store, summary_mode, return_memory) ==
    (IF lastProj.valid THEN lastProj.last ELSE <<>>)
    \o InnerMemoryLoop(store, summary_mode, return_memory)

\* A projection that walks the store from its last record to its first.
RECURSIVE InnerMemoryNewestFirst(_, _, _)
InnerMemoryNewestFirst(store, summary_mode, return_memory) ==
    IF store = <<>> THEN <<>>
    ELSE InnerMemoryNewestFirst(Tail(store), summary_mode, return_memory)
         \o to_messages(Head(store), summary_mode, return_memory)

\* A projection that replays the raw log after the steps.
InnerMemoryWithRawLog(store, summary_mode, return_memory) ==
    InnerMemoryLoop(store, summary_mode, return_memory)
    \o [i \in 1..Len(chat_messages) |-> Message("assistant", StrContent(chat_messages[i]))]

\* write_inner_memory_from_logs: memory = [] and the loop (lines 220-223).
InnerMemory(store, summary_mode, return_memory) ==
    InnerMemoryLoop(store, summary_mode, return_memory)

\* The steps that are logged.
PromptText == <<NL>> \o T("You are an agent.") \o <<NL>>

StepValues ==
    { SystemPromptStep("logger", PromptText),
      SystemPromptStep("memory", PromptText),
      TaskStep("logger", T("What is 2 + 3?"), None),
      PlanningStep("logger", T("1. add") \o <<NL>>, <<NL>> \o T("2 and 3 are given")),
      [Step("ActionStep", "logger") EXCEPT
          !.agent_memory = Some(T("[{'role': 'user', 'content': 'What is 2 + 3?'}]")),
          !.llm_output = Some(T("Thought: I add.") \o <<NL>>),
          !.tool_calls = Some(<<ToolCall(T("python_interpreter"), T("2 + 3"), T("call_1"))>>),
          !.observations = Some(T("5"))],
      [Step("ActionStep", "memory") EXCEPT
          !.llm_output = Some(<<NL>> \o T("Thought: I divide.")),
          !.error = Some(T("division by zero")),
          !.observations_images = Some(<<T("image_1")>>),
          !.step_number = Some(1)] }

\* The position argument of log_step: None, 0, or another index.
Positions == {PyNone, PyInt(0), PyInt(1)}

\* A log_step that inserts the step in front of the store.
InsertSystemPrompt(store, step) == <<step>> \o store

\* [step] + self.steps[1:] (memory.py line 190, logger.py line 202)
ReplaceSystemPrompt(store, step) ==
    <<step>> \o (IF store = <<>> THEN <<>> ELSE Tail(store))

\* A log_step without the assertion: every position is taken as 0.
AssertionDropped(position) == FALSE

\* assert position == 0 (memory.py line 189, logger.py line 201)
AssertionFails(position) == position # PyInt(0)

\* A log_step that adds the step in front of the store.
PrependStep(store, step) == <<step>> \o store

\* self.steps.append(step) (memory.py line 187, logger.py line 199)
AppendStep(store, step) == Append(store, step)

\* log_step (memory.py lines 177-190, logger.py lines 189-202)
log_step ==
    \E step \in StepValues, position \in Positions :
        /\ position = PyNone => Len(steps) < MaxSteps
        /\ IF position = PyNone
           THEN /\ steps' = AppendStep(steps, step)
                /\ logged' = [op |-> "log_step", called |-> TRUE, position |-> position,
                              step |-> <<step>>,
                              before |-> steps, exc |-> ""]
                /\ lastProj' = NoProjection
           ELSE IF AssertionFails(position)
           THEN /\ steps' = steps
                /\ logged' = [op |-> "log_step", called |-> TRUE, position |-> position,
                              step |-> <<step>>,
                              before |-> steps, exc |-> "AssertionError"]
                /\ lastProj' = NoProjection
           ELSE /\ steps' = ReplaceSystemPrompt(steps, step)
                /\ logged' = [op |-> "log_step", called |-> TRUE, position |-> position,
                              step |-> <<step>>,
                              before |-> steps, exc |-> ""]
                /\ lastProj' = NoProjection
        /\ callback' = NoCallback
        /\ dumped' = NoDump
        /\ UNCHANGED <<chat_messages, projected, executorVars, peerVars>>

\* A reset that keeps the record in slot 0.
ResetKeepsSlot0(store) == IF store = <<>> THEN <<>> ELSE <<Head(store)>>

\* self.steps = [] (memory.py line 175, logger.py line 205)
ResetSteps(store) == <<>>

\* reset (memory.py lines 174-175, logger.py lines 204-205): chat_messages
\* is not assigned.
reset ==
    /\ steps' = ResetSteps(steps)
    /\ logged' = [NoLogStep EXCEPT !.op = "reset", !.before = steps]
    /\ lastProj' = NoProjection
    /\ callback' = NoCallback
    /\ dumped' = NoDump
    /\ UNCHANGED <<chat_messages, projected, executorVars, peerVars>>

\* write_inner_memory_from_logs (logger.py lines 210-223). The store is
\* read and not assigned.
write_inner_memory_from_logs ==
    \E summary_mode \in BOOLEAN, return_memory \in BOOLEAN :
        LET memory == InnerMemory(steps, summary_mode, return_memory)
            again == /\ lastProj.valid
                     /\ lastProj.summary_mode = summary_mode
                     /\ lastProj.return_memory = return_memory
        IN  /\ again => lastProj.calls < MaxProjections
            /\ lastProj' =
                  IF again
                  THEN [lastProj EXCEPT !.last = memory, !.calls = @ + 1]
                  ELSE [valid |-> TRUE, summary_mode |-> summary_mode,
                        return_memory |-> return_memory, before |-> steps,
                        first |-> memory, last |-> memory, calls |-> 1]
            /\ logged' = NoLogStep
            /\ callback' = NoCallback
            /\ dumped' = NoDump
            /\ UNCHANGED <<steps, chat_messages, projected, executorVars, peerVars>>

NextMemory ==
    \/ log_step
    \/ reset
    \/ write_inner_memory_from_logs

SpecMemory == Init /\ [][NextMemory]_vars

(***************************************************************************)
(* The raw log of model responses beside the steps (memory.py).            *)
(***************************************************************************)
\* Bound of the model: the number of raw model responses logged.
MaxChatMessages == 1

\* The raw model responses that are logged.
ChatMessages == {T("Thought: I add.")}

\* log_chat_messages (memory.py lines 192-194)
log_chat_messages ==
    \E msg \in ChatMessages :
        /\ Len(chat_messages) < MaxChatMessages
        /\ chat_messages' = Append(chat_messages, msg)
        /\ UNCHANGED <<steps, logged, lastProj, projected, callback, dumped,
                       executorVars, peerVars>>

NextRawLog ==
    \/ log_step
    \/ reset
    \/ log_chat_messages

SpecRawLog == Init /\ [][NextRawLog]_vars

(***************************************************************************)
(* to_messages on one step object, for every combination of the attributes *)
(* of an ActionStep that are set, and both flags.                          *)
(***************************************************************************)
\* The values an attribute is given when it is set.
AgentMemoryValue == T("[{'role': 'user', 'content': 'What is 2 + 3?'}]")
LlmOutputValue == T("Thought: I add.") \o <<NL>>
ToolCallsValue ==
    <<ToolCall(T("python_interpreter"), T("2 + 3"), T("call_1")),
      ToolCall(T("final_answer"), T("x"), T("call_2"))>>
ErrorValue == T("division by zero")
ObservationsValue == T("5")

OptionalOf(value) == {None, Some(value)}

\* The ActionStep objects of a module: each attribute None or set;
\* observations_images (memory.py only) None, [] or one image.
ActionSteps(module) ==
    { [Step("ActionStep", module) EXCEPT
          !.agent_memory = am, !.llm_output = lo, !.tool_calls = tc, !.error = er,
          !.observations = ob, !.observations_images = oi] :
      am \in OptionalOf(AgentMemoryValue), lo \in OptionalOf(LlmOutputValue),
      tc \in OptionalOf(ToolCallsValue), er \in OptionalOf(ErrorValue),
      ob \in OptionalOf(ObservationsValue),
      oi \in IF module = "memory"
             THEN {None, Some(<<>>), Some(<<T("image_1")>>)}
             ELSE {None} }

StepObjects == ActionSteps("logger") \cup ActionSteps("memory") \cup StepValues

\* step.to_messages(summary_mode=..., return_memory=...) on a step object.
StepToMessages ==
    \E step \in StepObjects, summary_mode \in BOOLEAN, return_memory \in BOOLEAN :
        /\ projected' = [called |-> TRUE, step |-> <<step>>, summary_mode |-> summary_mode,
                         return_memory |-> return_memory,
                         messages |-> to_messages(step, summary_mode, return_memory)]
        /\ UNCHANGED <<steps, logged, lastProj, chat_messages, callback, dumped,
                       executorVars, peerVars>>

NextSteps == StepToMessages

SpecSteps == Init /\ [][NextSteps]_vars

(***************************************************************************)
(* A step callback of the examples, run by the agent on the step it is     *)
(* building with the agent, and so the store, at hand.                     *)
(***************************************************************************)
\* The step numbers of the steps the callback is run on.
StepNumbers == 1..3

\* The step the agent is building when it runs its callbacks.
MemorySteps ==
    { [Step("ActionStep", "memory") EXCEPT
          !.step_number = Some(n), !.observations = ob] :
      n \in StepNumbers, ob \in OptionalOf(ObservationsValue) }

UrlInfo == T("Current url: ") \o T("https://example.com")

\* The loop over agent.memory.steps (vision_web_browser.py lines 76-78):
\* the screenshots of the ActionSteps two or more steps back are dropped.
RemovePreviousScreenshots(store, current_step) ==
    [i \in 1..Len(store) |->
        IF /\ store[i].cls = "ActionStep"
           /\ store[i].module = "memory"
           /\ store[i].step_number.v <= current_step - 2
        THEN [store[i] EXCEPT !.observations_images = None]
        ELSE store[i]]

\* memory_step after lines 83-89: the screenshot and the url are set.
WithScreenshot(memory_step) ==
    [memory_step EXCEPT
        !.observations_images = Some(<<T("annotated_screenshot")>>),
        !.observations =
            IF memory_step.observations.isNone THEN Some(UrlInfo)
            ELSE Some(memory_step.observations.v \o <<NL>> \o UrlInfo)]

\* ScreenClicker.save_screenshot(memory_step, agent) (vision_web_browser.py
\* lines 70-90), with a browser driver or without one.
save_screenshot ==
    \E memory_step \in MemorySteps, driver \in BOOLEAN :
        /\ steps' = IF driver
                    THEN RemovePreviousScreenshots(steps, memory_step.step_number.v)
                    ELSE steps
        /\ callback' = [called |-> TRUE, script |-> "vision_web_browser",
                        driver |-> driver,
                        memory_step |-> <<IF driver THEN WithScreenshot(memory_step)
                                          ELSE memory_step>>,
                        before |-> steps, exc |-> ""]
        /\ logged' = NoLogStep
        /\ lastProj' = NoProjection
        /\ dumped' = NoDump
        /\ UNCHANGED <<chat_messages, projected, executorVars, peerVars>>

\* The loop over agent.logs of vlm_webbrowser.py (lines 41-43): its test
\* reads step_log, the step the callback is run on, and not step_logs, the
\* stored step, so it asks whether current_step <= current_step - 2.
VlmRemovePreviousScreenshots(store, current_step) ==
    [i \in 1..Len(store) |->
        IF current_step <= current_step - 2
        THEN [store[i] EXCEPT !.observations_images = None]
        ELSE store[i]]

\* step_log after lines 44-52 of vlm_webbrowser.py: line 51 reads the
\* observations of step_logs, the last stored step the loop left behind.
VlmWithScreenshot(step_log, store) ==
    LET shot == [step_log EXCEPT
                    !.observations_images = Some(<<T("annotated_screenshot")>>)]
    IN  IF store = <<>>
        THEN [exc |-> "UnboundLocalError", step |-> shot]
        ELSE IF store[Len(store)].observations.isNone
        THEN [exc |-> "", step |-> [shot EXCEPT !.observations = Some(UrlInfo)]]
        ELSE IF step_log.observations.isNone
        THEN [exc |-> "TypeError", step |-> shot]
        ELSE [exc |-> "",
              step |-> [shot EXCEPT
                           !.observations =
                               Some(step_log.observations.v \o <<NL>> \o UrlInfo)]]

\* save_screenshot(step_log, agent) of vlm_webbrowser.py (lines 36-52);
\* without a driver line 50 reads driver.current_url of None.
vlm_save_screenshot ==
    \E step_log \in MemorySteps, driver \in BOOLEAN :
        LET r == VlmWithScreenshot(step_log, steps)
        IN  /\ steps' = IF driver
                        THEN VlmRemovePreviousScreenshots(steps, step_log.step_number.v)
                        ELSE steps
            /\ callback' = [called |-> TRUE, script |-> "vlm_webbrowser",
                            driver |-> driver,
                            memory_step |-> <<IF driver THEN r.step ELSE step_log>>,
                            before |-> steps,
                            exc |-> IF driver THEN r.exc ELSE "AttributeError"]
            /\ logged' = NoLogStep
            /\ lastProj' = NoProjection
            /\ dumped' = NoDump
            /\ UNCHANGED <<chat_messages, projected, executorVars, peerVars>>

NextCallbacks ==
    \/ log_step
    \/ reset
    \/ save_screenshot
    \/ vlm_save_screenshot

SpecCallbacks == Init /\ [][NextCallbacks]_vars

(***************************************************************************)
(* The serialized form of the store: get_extended_logs (memory.py) and     *)
(* AgentLogger.dict (logger.py).                                           *)
(***************************************************************************)
\* ToolCall.dict (memory.py lines 23-31, logger.py lines 42-50); the
\* arguments are a str, which make_json_serializable hands back.
ToolCallDict(tc) ==
    [id |-> tc.id, type |-> "function",
     function |-> [name |-> tc.name, arguments |-> tc.arguments]]

\* ActionStep.dict (memory.py lines 58-71, logger.py lines 66-78), without
\* the times and the action output; error.dict() keeps the message.
ActionStepDict(step) ==
    [agent_memory |-> step.agent_memory,
     tool_calls |-> IF step.tool_calls.isNone THEN <<>>
                    ELSE [i \in 1..Len(step.tool_calls.v) |->
                             ToolCallDict(step.tool_calls.v[i])],
     step |-> step.step_number,
     error |-> IF step.error.isNone THEN None ELSE Some([message |-> step.error.v]),
     llm_output |-> step.llm_output,
     observations |-> step.observations]

\* step.dict(): the method of the step's class. The classes of logger.py
\* name their keys (lines 122-123, 140-141, 152-153); those of memory.py
\* inherit asdict(self) (line 38), which has every field of the dataclass.
StepDict(step) ==
    CASE step.cls = "ActionStep" -> ActionStepDict(step)
      [] step.cls = "PlanningStep" -> [plan |-> step.plan.v, facts |-> step.facts.v]
      [] step.cls = "TaskStep" /\ step.module = "logger" -> [task |-> step.task.v]
      [] step.cls = "TaskStep" /\ step.module = "memory" ->
            [task |-> step.task.v, task_images |-> step.task_images]
      [] OTHER -> [system_prompt |-> step.system_prompt.v]

\* A serialisation that leaves out the records that are no ActionStep.
SerializeActionSteps(store) ==
    LET actions == SelectSeq(store, LAMBDA s : s.cls = "ActionStep")
    IN  [i \in 1..Len(actions) |-> StepDict(actions[i])]

\* [step.dict() for step in self.steps] (memory.py line 201, logger.py
\* line 226)
Serialize(store) == [i \in 1..Len(store) |-> StepDict(store[i])]

\* AgentMemory.get_extended_logs (memory.py lines 199-203)
get_extended_logs ==
    /\ dumped' = [called |-> TRUE, method |-> "get_extended_logs",
                  entries |-> Serialize(steps), chat_messages |-> chat_messages]
    /\ logged' = NoLogStep
    /\ lastProj' = NoProjection
    /\ callback' = NoCallback
    /\ UNCHANGED <<steps, chat_messages, projected, executorVars, peerVars>>

\* AgentLogger.dict (logger.py lines 225-226)
AgentLoggerDict ==
    /\ dumped' = [called |-> TRUE, method |-> "dict", entries |-> Serialize(steps),
                  chat_messages |-> <<>>]
    /\ logged' = NoLogStep
    /\ lastProj' = NoProjection
    /\ callback' = NoCallback
    /\ UNCHANGED <<steps, chat_messages, projected, executorVars, peerVars>>

NextSerialize ==
    \/ log_step
    \/ reset
    \/ get_extended_logs
    \/ AgentLoggerDict

SpecSerialize == Init /\ [][NextSerialize]_vars

(***************************************************************************)
(* The read loop of run_code (lines 141-169) on its own: the executor is   *)
(* constructed, run_code has sent its request, and the connection holds    *)
(* any sequence of kernel messages.                                        *)
(***************************************************************************)
\* Bound of the model: the number of messages on the connection.
MaxMessages == 3

\* The id of the call's request, and the id of an earlier request.
OwnId == 2
EarlierId == 1

\* The messages that may be on the connection.
LoopMessages ==
    { Msg("status", OwnId, <<>>, "busy"),
      Msg("stream", OwnId, T("hi") \o <<NL>>, ""),
      Msg("stream", OwnId, T("there"), ""),
      Msg("stream", OwnId, <<Sentinel, B64Pickle(PyInt(5)), NL>>, ""),
      Msg("error", OwnId, Traceback("NameError"), ""),
      Msg("status", OwnId, <<>>, "idle"),
      Msg("stream", EarlierId, T("old"), ""),
      Msg("error", EarlierId, Traceback("NameError"), ""),
      Msg("status", EarlierId, <<>>, "idle") }

SeqsUpTo(S, n) == UNION {[1..k -> S] : k \in 0..n}

\* The attributes __init__ sets (lines 28-33, 37-95).
DoneAttrs ==
    {"final_answer_pattern", "container", "port", "kernel_id", "logger", "host",
     "client", "base_url", "ws"}

\* run_code(code_action, return_final_answer) at line 145, before its
\* first ws.recv().
InitReadLoop ==
    /\ peers = [e \in {1, 2} |-> NewPeer]
    /\ steps = <<>>
    /\ logged = NoLogStep
    /\ lastProj = NoProjection
    /\ chat_messages = <<>>
    /\ projected = NoStepProjection
    /\ callback = NoCallback
    /\ dumped = NoDump
    /\ stage = "done"
    /\ attrs = DoneAttrs
    /\ pkgs = <<>>
    /\ istate = 0
    /\ initExc = ""
    /\ container = "running"
    /\ cleanups = 0
    /\ cleanupCaught = ""
    /\ cleanupRaised = ""
    /\ deleted = FALSE
    /\ wsOpen = TRUE
    /\ wsq \in SeqsUpTo(LoopMessages, MaxMessages)
    /\ kq = <<>>
    /\ kout = <<>>
    /\ khang = FALSE
    /\ ns = EmptyNamespace
    /\ nextId = OwnId + 1
    /\ pc = "recv"
    /\ \E return_final_answer \in BOOLEAN :
          call = [NoCall EXCEPT !.op = "call",
                                !.code = IF return_final_answer THEN CodeFinalAPlus1
                                         ELSE CodePrintHi,
                                !.final = return_final_answer,
                                !.msg_id = OwnId]
    /\ hist = <<>>

NextReadLoop == Recv

SpecReadLoop == InitReadLoop /\ [][NextReadLoop]_vars

(***************************************************************************)
(* Properties.                                                             *)
(***************************************************************************)
\* The websocket has not dropped so far (a dropped connection stays down).
ConnectionUp == wsOpen

Contains(text, tok) == \E k \in 1..Len(text) : text[k] = tok

\* C1: a code action that ends in a final_answer(<expr>) call, such as
\* "x = 2; final_answer(x + 3)", returns the value of <expr> in the kernel
\* with the is-final-answer flag true (while the connection is up).
C1_FinalAnswerReturnsValue ==
    \A i \in 1..Len(hist) :
        LET h == hist[i]
        IN  ( /\ h.op = "call"
              /\ EndsInFinalAnswer(h.code)
              /\ ConnectionUp
              /\ Eval(h.nsAfter, FinalAnswerArgument(h.code)).exc = "" )
            => /\ h.status = "return"
               /\ h.flag
               /\ h.result = Eval(h.nsAfter, FinalAnswerArgument(h.code)).val

\* C2: the read loop bounds its wait: whenever a call waits in the loop,
\* a message is there to read or still to come from the kernel, or the wait
\* can end by failing.
C2_WaitIsBounded ==
    pc = "recv" => ENABLED (Recv \/ RecvClosed \/ KernelStart \/ KernelPublish)

\* C3: after a teardown of an executor whose construction completed, the
\* container has been stopped and removed.
C3_TeardownRemovesContainer ==
    (stage = "done" /\ cleanups >= 1) => container = "removed"

\* C4: when construction has failed after the container was started, the
\* container has been stopped and removed.
C4_FailedInitRemovesContainer ==
    (stage = "failed" /\ hasattr(attrs, "container")) => container = "removed"

\* C5: no run of cleanup lets an error through, whatever the state of the
\* executor and of its container.
C5_TeardownNeverRaises == cleanupRaised = ""

\* C5 witness: a second teardown that found the container already removed
\* (container.stop() raised NotFound) ended without an error.
C5_Witness ==
    /\ cleanups = 2
    /\ container = "removed"
    /\ cleanupCaught = "NotFound"
    /\ cleanupRaised = ""

\* C6: get_variable_from_kernel(name) returns the value bound to a defined
\* name, and fails with a NameError-class error for an undefined one
\* (while the connection is up).
C6_GetVariable ==
    \A i \in 1..Len(hist) :
        LET h == hist[i]
        IN  (h.op = "get" /\ ConnectionUp)
            => IF h.nsBefore[h.name] # Undef
               THEN h.status = "return" /\ h.result = h.nsBefore[h.name]
               ELSE /\ h.status = "raise"
                    /\ \/ h.exc \in {"NameError", "UnboundLocalError"}
                       \/ Contains(h.text, Chars(PyStr("NameError")))

\* C7: after send_variables_to_kernel(m) with "a" a key of m has returned,
\* the call final_answer(a + 1) returns m["a"] + 1 with the flag true
\* (while the connection is up).
C7_StateRoundTrip ==
    \A i \in 1..Len(hist) :
        ( /\ i > 1
          /\ hist[i - 1].op = "send"
          /\ hist[i - 1].status = "return"
          /\ "a" \in Keys(hist[i - 1].mid)
          /\ hist[i].op = "call"
          /\ hist[i].code = CodeFinalAPlus1
          /\ ConnectionUp )
        => /\ hist[i].status = "return"
           /\ hist[i].flag
           /\ hist[i].result = PyInt(Mapping(hist[i - 1].mid)["a"].v + 1)

\* C7 witness: send_variables_to_kernel({"a": 7}) returned and the next
\* call, final_answer(a + 1), returned 8.
C7_Witness ==
    /\ Len(hist) = 2
    /\ hist[1].op = "send" /\ hist[1].mid = 1 /\ hist[1].status = "return"
    /\ hist[2].op = "call" /\ hist[2].code = CodeFinalAPlus1
    /\ hist[2].status = "return" /\ hist[2].result = PyInt(8)

\* C8: after send_variables_to_kernel(m) has returned, every key of m is
\* bound to its mapped value and every other name that was bound before the
\* call still has the value it had.
C8_SendVariablesMerges ==
    \A i \in 1..Len(hist) :
        LET h == hist[i]
        IN  (h.op = "send" /\ h.status = "return")
            => \A n \in Names :
                  IF n \in Keys(h.mid)
                  THEN h.nsAfter[n] = Mapping(h.mid)[n]
                  ELSE h.nsBefore[n] # Undef => h.nsAfter[n] = h.nsBefore[n]

\* C9: the code print('hi'), which does not match the final-answer pattern,
\* returns a log containing "hi", the result None and the flag false
\* (while the connection is up).
C9_PrintOnly ==
    \A i \in 1..Len(hist) :
        LET h == hist[i]
        IN  (h.op = "call" /\ h.code = CodePrintHi /\ ConnectionUp)
            => /\ h.status = "return"
               /\ h.result = PyNone
               /\ ~h.flag
               /\ Contains(h.log, Chars(PyStr("hi")))

\* C9 witness: a call of print('hi') has returned its log.
C9_Witness ==
    \E i \in 1..Len(hist) :
        /\ hist[i].op = "call"
        /\ hist[i].code = CodePrintHi
        /\ hist[i].status = "return"
        /\ hist[i].log = <<Chars(PyStr("hi")), NL>>

\* C10: code with a syntax error fails the call with the error kind the
\* callers expect (ValueError in the test, ExecutionError in the spec), and
\* the error's text contains "SyntaxError" (while the connection is up).
C10_SyntaxErrorKind ==
    \A i \in 1..Len(hist) :
        LET h == hist[i]
        IN  (h.op = "call" /\ h.code = CodeBroken /\ ConnectionUp)
            => /\ h.status = "raise"
               /\ h.exc \in {"ValueError", "ExecutionError"}
               /\ Contains(h.text, Chars(PyStr("SyntaxError")))

\* C11: when a call fails because the kernel reported an error, the raised
\* error carries every stream output received for the request before the
\* error, together with the error's traceback text.
C11_ErrorCarriesCapturedText ==
    \A i \in 1..Len(hist) :
        LET h == hist[i]
        IN  (h.op = "call" /\ h.status = "raise" /\ h.exc = "RuntimeError")
            => /\ \A k \in 1..Len(h.captured) : Contains(h.text, h.captured[k])
               /\ \E exc \in {"NameError", "TypeError", "SyntaxError"} :
                      Contains(h.text, Chars(PyStr(exc)))

\* C12: in final-answer mode a call that returns has received a message of
\* its own request that starts with the sentinel, and its result is the
\* value unpickled from the payload of that message; an idle status read
\* before such a message does not end the call.
C12_FinalWaitsForSentinel ==
    \A i \in 1..Len(hist) :
        LET h == hist[i]
        IN  ( /\ \/ h.op = "call" /\ final_answer_pattern(h.code)
                 \/ h.op = "get"
              /\ h.status = "return" )
            => /\ Len(h.sentinel) >= 2
               /\ h.sentinel[1] = Sentinel
               /\ h.sentinel[2] = B64Pickle(h.result)

\* C12 witness: final_answer(a + 1) returned 8, the payload of the sentinel
\* message it received; and a later call, final_answer(print('hi')), whose
\* output reached it as one stream message that starts with "hi", has read
\* every message of its request, the idle status included, and still waits.
C12_Witness ==
    /\ Len(hist) = 1
    /\ hist[1].code = CodeFinalAPlus1
    /\ hist[1].status = "return"
    /\ hist[1].result = PyInt(8)
    /\ hist[1].sentinel = <<Sentinel, B64Pickle(PyInt(8)), NL>>
    /\ pc = "recv"
    /\ call.code = CodeFinalOfPrint
    /\ call.final
    /\ call.sentinel = <<>>
    /\ wsOpen /\ wsq = <<>> /\ kout = <<>> /\ kq = <<>> /\ ~khang

\* C13: submissions are strictly sequential: at no time is an execute
\* request the executor has sent waiting at the kernel while an earlier
\* request has not completed (its idle status is still to be published),
\* also after a call that raised on a kernel error message; and the
\* namespace a call starts from is the namespace the previous call left
\* (while the connection is up).
C13_SequentialSubmissions ==
    /\ Len(kq) + (IF kout # <<>> \/ khang THEN 1 ELSE 0) <= 1
    /\ ConnectionUp =>
          \A i \in 2..Len(hist) : hist[i].nsBefore = hist[i - 1].nsAfter

\* C14: when the output captured for a call holds a line made of the image
\* marker followed by a base64 payload, the call returns the image decoded
\* from that payload as its result, final-answer mode or not (while the
\* connection is up).
C14_ImageMarkerDecoded ==
    \A i \in 1..Len(hist) :
        LET h == hist[i]
        IN  \A k \in 1..(Len(h.captured) - 1) :
                ( /\ h.op = "call"
                  /\ ConnectionUp
                  /\ h.captured[k] = ImageMarker
                  /\ h.captured[k + 1].tag = "b64png" )
                => /\ h.status = "return"
                   /\ h.result = h.captured[k + 1].val

\* C15: when the installation of a requested package has failed (the output
\* captured for its install command reports the failure), construction
\* fails: the step that ends the install command never lets the
\* constructor go on.
C15_FailedInstallFailsConstruction ==
    [][ ( /\ call.op = "install"
          /\ Contains(Join(call.outputs), Chars(PyStr("ERROR: No matching distribution")))
          /\ pc = "recv"
          /\ pc' = "ready" )
        => stage' = "failed" ]_vars

\* C16: a final-answer payload that cannot be unpickled makes the call fail
\* with the result-decode error kind: a call in final-answer mode that read
\* a sentinel message whose payload does not decode ends by raising
\* ResultDecodeError, never by returning and never with another error kind
\* (while the connection is up).
C16_DecodeErrorKind ==
    \A i \in 1..Len(hist) :
        LET h == hist[i]
        IN  ( /\ \/ h.op = "call" /\ final_answer_pattern(h.code)
                 \/ h.op = "get"
              /\ h.sentinel # <<>>
              /\ DecodeResult(h.sentinel).exc # ""
              /\ ConnectionUp )
            => /\ h.status = "raise"
               /\ h.exc = "ResultDecodeError"

\* C17: teardown may run while an execute call of the same executor waits
\* for kernel messages, and the interrupted call does not wait for ever
\* afterwards: once a teardown has run, a call that is still in the read
\* loop has a message to read or still to come, or its wait ends by failing.
C17_TeardownDuringCall ==
    (pc = "recv" /\ cleanups >= 1)
    => ENABLED (Recv \/ RecvClosed \/ KernelStart \/ KernelPublish)

\* C18: two executors share no mutable resource: a step of one (its
\* construction, a call, its teardown) leaves the namespace, the container
\* and the kernel of the other as they were, and the construction of an
\* executor with the default parameters while the other, also constructed
\* with them, is alive does not fail for it.
C18_IndependentExecutors ==
    [][ \A e \in Executors : \A o \in Executors \ {e} :
            /\ peers'[e] # peers[e] => peers'[o] = peers[o]
            /\ ( /\ peers[e].stage = "build"
                 /\ peers[e].port = 8888
                 /\ peers[o].port = 8888
                 /\ peers[o].stage = "done"
                 /\ peers[o].container = "running" )
               => peers'[e].initExc # PortAllocated ]_vars

C20_ReplaceKeepsLength ==
    (logged.called /\ logged.position = PyInt(0) /\ logged.exc = "")
    => /\ Len(steps) = Len(logged.before)
       /\ \A k \in 2..Len(logged.before) : steps[k] = logged.before[k]

\* C20 as amended: log_step with position=0 on a store that is not empty
\* keeps the length of the store; on an empty store it stores the step as
\* the only record. In both cases the step is in slot 0 afterwards and every
\* later record is the one that was there, in the same place.
C20_ReplaceKeepsLaterRecords ==
    (logged.called /\ logged.position = PyInt(0) /\ logged.exc = "")
    => /\ Len(steps) = (IF logged.before = <<>> THEN 1 ELSE Len(logged.before))
       /\ <<steps[1]>> = logged.step
       /\ \A k \in 2..Len(steps) : steps[k] = logged.before[k]

\* C20 witness: slot 0 of a store of two records or more was replaced by a
\* different step.
C20_Witness ==
    /\ logged.called
    /\ logged.position = PyInt(0)
    /\ Len(logged.before) >= 2
    /\ steps[1] # logged.before[1]

\* The records of a store that are no system prompt, in store order.
NonPromptRecords(store) == SelectSeq(store, LAMBDA s : s.cls # "SystemPromptStep")

\* a is a subsequence of b: its records appear in b in the same order.
RECURSIVE IsSubsequence(_, _)
IsSubsequence(a, b) ==
    IF a = <<>> THEN TRUE
    ELSE IF b = <<>> THEN FALSE
    ELSE IF Head(a) = Head(b) THEN IsSubsequence(Tail(a), Tail(b))
    ELSE IsSubsequence(a, Tail(b))

\* C21: a log_step that raises nothing keeps every task, planning and action
\* record of the store in the store, in the same relative order (reset is
\* the one call that may remove them).
C21_RecordsStayStored ==
    (logged.called /\ logged.exc = "") =>
        IsSubsequence(NonPromptRecords(logged.before), NonPromptRecords(steps))

\* The text of a message: the texts of its parts, one after the other.
RECURSIVE TextOf(_)
TextOf(content) ==
    IF content = <<>> THEN <<>> ELSE Head(content).text \o TextOf(Tail(content))

\* The blocks of a projection whose text holds the piece of text tok.
BlocksWith(messages, tok) ==
    SelectSeq(messages, LAMBDA m : Contains(TextOf(m.content), Head(T(tok))))

\* The text begins with "Call id: " and the id of the step's tool call.
CarriesCallId(text, step) ==
    /\ Len(text) >= 1 + Len(step.tool_calls.v[1].id)
    /\ SubSeq(text, 1, 1 + Len(step.tool_calls.v[1].id))
          = T("Call id: ") \o step.tool_calls.v[1].id

\* The ActionStep whose projection is looked at.
ProjectedAction ==
    /\ projected.called
    /\ projected.step[1].cls = "ActionStep"

\* C22: the projection of an ActionStep whose error is set has one error
\* block; with a tool call its role is tool-response and its text begins
\* with the id of the tool call, without a tool call its role is assistant.
C22_ErrorBlockRole ==
    (ProjectedAction /\ ~projected.step[1].error.isNone) =>
        LET step == projected.step[1]
            blocks == BlocksWith(projected.messages, "Error:")
        IN  /\ Len(blocks) = 1
            /\ IF step.tool_calls.isNone
               THEN /\ blocks[1].role = "assistant"
                    /\ ~Contains(TextOf(blocks[1].content), Head(T("Call id: ")))
               ELSE /\ blocks[1].role = "tool-response"
                    /\ CarriesCallId(TextOf(blocks[1].content), step)
                    /\ Contains(TextOf(blocks[1].content), Head(ErrorValue))

\* An ActionStep of memory.py with a tool call and an error was projected.
C22_Witness ==
    /\ ProjectedAction
    /\ projected.step[1].module = "memory"
    /\ ~projected.step[1].error.isNone
    /\ ~projected.step[1].tool_calls.isNone
    /\ \E i \in 1..Len(projected.messages) : projected.messages[i].role = "tool-response"

\* The kind of a block of an ActionStep's projection: 1 the raw-memory
\* block, 2 the model text, 3 the tool-call list, 4 the error, observation
\* or image block.
BlockKind(m) ==
    IF m.role = "system" THEN 1
    ELSE IF Contains(TextOf(m.content), Head(LlmOutputValue)) THEN 2
    ELSE IF Contains(TextOf(m.content), Head(T("{'id': "))) THEN 3
    ELSE 4

\* C23: the projection of an ActionStep has at most four blocks, one of
\* each kind at most, in the order raw memory, model text, tool-call list,
\* error/observation/image block.
C23_AtMostFourBlocks ==
    ProjectedAction =>
        /\ Len(projected.messages) <= 4
        /\ \A i, j \in 1..Len(projected.messages) :
              i < j => BlockKind(projected.messages[i]) < BlockKind(projected.messages[j])

\* C24: the projection of an ActionStep whose error is set has its error
\* block and no observation block, also when observations is set; with no
\* error, a tool call and observations set it has one observation block,
\* of role tool-response, whose text begins with the id of the tool call.
C24_ErrorHidesObservation ==
    ProjectedAction =>
        LET step == projected.step[1]
            errors == BlocksWith(projected.messages, "Error:")
            observed == BlocksWith(projected.messages, "Observation:")
        IN  /\ ~step.error.isNone =>
                  /\ Len(errors) = 1
                  /\ observed = <<>>
                  /\ \A i \in 1..Len(projected.messages) :
                        ~Contains(TextOf(projected.messages[i].content),
                                  Head(ObservationsValue))
            /\ (step.error.isNone /\ ~step.tool_calls.isNone
                  /\ ~step.observations.isNone) =>
                  /\ errors = <<>>
                  /\ Len(observed) = 1
                  /\ observed[1].role = "tool-response"
                  /\ CarriesCallId(TextOf(observed[1].content), step)
                  /\ Contains(TextOf(observed[1].content), Head(ObservationsValue))

\* An ActionStep of memory.py with a tool call, an error and observations
\* was projected.
C24_Witness ==
    /\ ProjectedAction
    /\ projected.step[1].module = "memory"
    /\ ~projected.step[1].error.isNone
    /\ ~projected.step[1].observations.isNone
    /\ ~projected.step[1].tool_calls.isNone
    /\ Len(BlocksWith(projected.messages, "Error:")) = 1

\* Some block of the projection holds the first piece of the text that is
\* no whitespace.
Mentions(messages, text) == BlocksWith(messages, Head(Strip(text)).val.s) # <<>>

\* The records of a class in a store.
RecordsOf(store, cls) == SelectSeq(store, LAMBDA s : s.cls = cls)

\* C25: the projection of a store in summary mode has no block with the
\* system prompt of a stored step, none with the model text of a stored
\* step and none with a plan; it has one facts block for each planning
\* step and one task block for each task step.
C25_SummaryMode ==
    (lastProj.valid /\ lastProj.summary_mode) =>
        LET store == lastProj.before
            memory == lastProj.last
        IN  /\ \A i \in 1..Len(store) :
                  /\ ~store[i].system_prompt.isNone =>
                        ~Mentions(memory, store[i].system_prompt.v)
                  /\ ~store[i].llm_output.isNone =>
                        ~Mentions(memory, store[i].llm_output.v)
                  /\ ~store[i].plan.isNone => ~Mentions(memory, store[i].plan.v)
                  /\ ~store[i].facts.isNone => Mentions(memory, store[i].facts.v)
                  /\ ~store[i].task.isNone => Mentions(memory, store[i].task.v)
            /\ BlocksWith(memory, "[PLAN]:") = <<>>
            /\ Len(BlocksWith(memory, "[FACTS LIST]:"))
                  = Len(RecordsOf(store, "PlanningStep"))
            /\ Len(BlocksWith(memory, "New task:")) = Len(RecordsOf(store, "TaskStep"))

\* A store with a system prompt, a task and a planning step was projected
\* in summary mode, to the task block and the facts block.
C25_Witness ==
    /\ lastProj.valid
    /\ lastProj.summary_mode
    /\ RecordsOf(lastProj.before, "SystemPromptStep") # <<>>
    /\ RecordsOf(lastProj.before, "TaskStep") # <<>>
    /\ RecordsOf(lastProj.before, "PlanningStep") # <<>>
    /\ Len(lastProj.last) = 2

\* C26: a log_step without a position makes the store one longer, with the
\* step last and every record of before in its place.
C26_AppendAtEnd ==
    (logged.called /\ logged.position = PyNone) =>
        /\ logged.exc = ""
        /\ Len(steps) = Len(logged.before) + 1
        /\ steps[Len(steps)] = logged.step[1]
        /\ \A i \in 1..Len(logged.before) : steps[i] = logged.before[i]

\* A step was appended to a store of two other records.
C26_Witness ==
    /\ logged.called
    /\ logged.position = PyNone
    /\ Len(logged.before) = 2
    /\ Len(steps) = 3
    /\ logged.before[1] # logged.step[1]
    /\ logged.before[2] # logged.step[1]
    /\ logged.before[1] # logged.before[2]

\* C27: after a reset, whatever the store was before, the step sequence is
\* empty and write_inner_memory_from_logs returns the empty list for each
\* combination of flags.
C27_ResetEmpties ==
    logged.op = "reset" =>
        /\ steps = <<>>
        /\ \A summary_mode \in BOOLEAN, return_memory \in BOOLEAN :
              InnerMemory(steps, summary_mode, return_memory) = <<>>

\* A store of three records, whose projection was not empty, was reset.
C27_Witness ==
    /\ logged.op = "reset"
    /\ Len(logged.before) = 3
    /\ InnerMemory(logged.before, FALSE, FALSE) # <<>>
    /\ steps = <<>>

\* C28: the raw log and the steps are apart. A call that changes the raw
\* log appends one response to it, leaves the steps as they are, and
\* leaves what write_inner_memory_from_logs returns, for each combination
\* of flags, as it is; a call that changes the steps or is a log_step or a
\* reset leaves the raw log as it is.
C28_RawLogSeparate ==
    [][/\ chat_messages' # chat_messages =>
             /\ steps' = steps
             /\ logged' = logged
             /\ Len(chat_messages') = Len(chat_messages) + 1
             /\ SubSeq(chat_messages', 1, Len(chat_messages)) = chat_messages
             /\ \A summary_mode \in BOOLEAN, return_memory \in BOOLEAN :
                   InnerMemory(steps, summary_mode, return_memory)'
                      = InnerMemory(steps, summary_mode, return_memory)
       /\ (steps' # steps \/ logged' # logged) => chat_messages' = chat_messages]_vars

\* A response was logged and a step was logged, in a store whose
\* projection is not empty; the raw log and the steps both hold something.
C28_Witness ==
    /\ chat_messages # <<>>
    /\ logged.op = "log_step"
    /\ logged.before # <<>>
    /\ Len(steps) = Len(logged.before) + 1
    /\ InnerMemory(steps, FALSE, FALSE) # <<>>

\* C29: a record of the store is never changed: a call other than reset
\* leaves each stored record in its slot as it is, but for a log_step at
\* position 0, which may replace the record in slot 0.
C29_StoredRecordsImmutable ==
    [][logged'.op # "reset" =>
          \A i \in 1..Len(steps) :
              /\ i <= Len(steps')
              /\ \/ steps'[i] = steps[i]
                 \/ /\ i = 1
                    /\ logged'.op = "log_step"
                    /\ logged'.position = PyInt(0)]_vars

\* The entry is the serialized form of the step: it has the keys of the
\* step's class, with the step's values.
EntryOf(entry, step) ==
    CASE step.cls = "SystemPromptStep" ->
            /\ DOMAIN entry = {"system_prompt"}
            /\ entry.system_prompt = step.system_prompt.v
      [] step.cls = "TaskStep" ->
            /\ "task" \in DOMAIN entry
            /\ "llm_output" \notin DOMAIN entry
            /\ entry.task = step.task.v
      [] step.cls = "PlanningStep" ->
            /\ DOMAIN entry = {"plan", "facts"}
            /\ entry.plan = step.plan.v
            /\ entry.facts = step.facts.v
      [] OTHER ->
            /\ {"llm_output", "observations", "step", "tool_calls"} \subseteq DOMAIN entry
            /\ entry.llm_output = step.llm_output
            /\ entry.observations = step.observations
            /\ entry.step = step.step_number
            /\ Len(entry.tool_calls)
                  = (IF step.tool_calls.isNone THEN 0 ELSE Len(step.tool_calls.v))

\* C30: the serialized form of the store, after any log_step and reset
\* calls, has one entry for each stored step, in the order of the store.
C30_OneEntryPerStep ==
    dumped.called =>
        /\ Len(dumped.entries) = Len(steps)
        /\ \A i \in 1..Len(steps) : EntryOf(dumped.entries[i], steps[i])

\* A store of three records of three classes was serialized.
C30_Witness ==
    /\ dumped.called
    /\ Len(steps) = 3
    /\ Len(dumped.entries) = 3
    /\ steps[1].cls = "SystemPromptStep"
    /\ steps[2].cls = "TaskStep"
    /\ steps[3].cls = "ActionStep"

\* C31: a log_step with a position other than None and 0 raises the
\* AssertionError and leaves the step sequence as it was.
C31_OtherPositionRejected ==
    (logged.called /\ logged.position \notin {PyNone, PyInt(0)}) =>
        /\ logged.exc = "AssertionError"
        /\ steps = logged.before

\* A log_step at position 1 on a store of two records was rejected.
C31_Witness ==
    /\ logged.called
    /\ logged.position = PyInt(1)
    /\ logged.exc = "AssertionError"
    /\ Len(logged.before) = 2
    /\ logged.step[1] # logged.before[1]
    /\ steps = logged.before

\* C32: a call of the executor that returns has the is-final-answer flag
\* true exactly when the whole code action matches the final-answer
\* pattern; a code action that does not match is sent to the kernel as it
\* is, in non-final mode.
C32_FlagIffWholeMatch ==
    /\ [](\A i \in 1..Len(hist) :
            (hist[i].op = "call" /\ hist[i].status = "return") =>
                (hist[i].flag <=> final_answer_pattern(hist[i].code)))
    /\ [][(Len(kq') = Len(kq) + 1 /\ call'.op = "call"
             /\ ~final_answer_pattern(call'.code)) =>
                /\ ~call'.final
                /\ kq'[Len(kq')].code = call'.code]_vars

\* One call with a code action that is the single final_answer call
\* returned the flag true, and one with a code action that is no
\* final_answer call returned it false, with the output of its code.
C32_Witness ==
    /\ \E i \in 1..Len(hist) :
          /\ hist[i].op = "call"
          /\ hist[i].status = "return"
          /\ final_answer_pattern(hist[i].code)
          /\ hist[i].flag
    /\ \E i \in 1..Len(hist) :
          /\ hist[i].op = "call"
          /\ hist[i].status = "return"
          /\ hist[i].code = CodePrintHi
          /\ hist[i].log # <<>>
          /\ ~hist[i].flag

\* C33: after the screenshot callback has run with a browser on the step
\* numbered n, no stored ActionStep numbered n - 2 or less has observed
\* images, and step n has the new screenshot as its only image.
C33_OldScreenshotsRemoved ==
    (callback.called /\ callback.driver) =>
        LET n == callback.memory_step[1].step_number.v
        IN  /\ \A i \in 1..Len(steps) :
                  (/\ steps[i].cls = "ActionStep"
                   /\ ~steps[i].step_number.isNone
                   /\ steps[i].step_number.v <= n - 2) =>
                      steps[i].observations_images.isNone
            /\ callback.memory_step[1].observations_images
                  = Some(<<T("annotated_screenshot")>>)

\* The ids of the requests the messages in flight belong to.
IdsInFlight ==
    {kq[i].id : i \in 1..Len(kq)}
    \cup {kout[i].parent : i \in 1..Len(kout)}
    \cup {wsq[i].parent : i \in 1..Len(wsq)}

\* C34: a message read by run_code whose parent is not the call's own
\* request is skipped: it neither ends the call, nor fails it, nor changes
\* its outputs or result. The id of each request is fresh: it differs from
\* the id of every message in flight when it is sent.
C34_OnlyOwnMessagesCount ==
    /\ [][(/\ pc = "recv"
           /\ wsOpen
           /\ wsOpen'
           /\ wsq # <<>>
           /\ wsq' = Tail(wsq)
           /\ Head(wsq).parent # call.msg_id) =>
              /\ call' = call
              /\ pc' = "recv"
              /\ hist' = hist]_vars
    /\ [][Len(kq') = Len(kq) + 1 =>
              /\ kq'[Len(kq')].id = nextId
              /\ kq'[Len(kq')].id = call'.msg_id
              /\ kq'[Len(kq')].id \notin IdsInFlight
              /\ nextId' > nextId]_vars
    /\ [](\A id \in IdsInFlight : id < nextId)

\* A call raised on the error message of its request, and the next call,
\* which found the late replies of the first on the connection, returned
\* the output of its own code.
C34_Witness ==
    /\ Len(hist) = 2
    /\ hist[1].op = "call"
    /\ hist[1].status = "raise"
    /\ hist[1].exc = "RuntimeError"
    /\ hist[2].op = "call"
    /\ hist[2].status = "return"
    /\ hist[2].code = CodePrintHi
    /\ hist[2].log # <<>>

\* The text starts with the sentinel.
StartsWithSentinel(text) == text # <<>> /\ Head(text) = Sentinel

\* C35: the log a run_code call returns is the stream texts of its request
\* up to the idle status that ended it, joined in arrival order; in final
\* mode without the texts that start with the sentinel; in the other mode
\* with them, and the result is None.
C35_LogIsOwnStreams ==
    \A i \in 1..Len(hist) :
        (hist[i].op = "call" /\ hist[i].status = "return") =>
            LET h == hist[i]
                kept == SelectSeq(h.streams,
                                  LAMBDA t : ~(h.final /\ StartsWithSentinel(t)))
            IN  /\ h.log = Join(kept)
                /\ h.final => ~Contains(h.log, Sentinel)
                /\ ~h.final =>
                      /\ h.result = PyNone
                      /\ h.log = Join(h.streams)

\* A call in the other mode returned a log of two texts, the second of
\* which starts with the sentinel, and result None.
C35_Witness ==
    /\ Len(hist) = 1
    /\ hist[1].status = "return"
    /\ ~hist[1].final
    /\ Len(hist[1].streams) = 2
    /\ ~StartsWithSentinel(hist[1].streams[1])
    /\ StartsWithSentinel(hist[1].streams[2])
    /\ hist[1].log = hist[1].streams[1] \o hist[1].streams[2]
    /\ hist[1].result = PyNone

\* a is a prefix of b.
IsPrefix(a, b) == Len(a) <= Len(b) /\ SubSeq(b, 1, Len(a)) = a

\* C36: after a log_step that appends, the projection of the store is,
\* for each combination of flags, the projection of the store before
\* followed by the projection of the new step: the messages produced
\* before are a prefix of those produced after.
C36_AppendExtendsProjection ==
    (logged.called /\ logged.position = PyNone) =>
        \A summary_mode \in BOOLEAN, return_memory \in BOOLEAN :
            LET old == InnerMemory(logged.before, summary_mode, return_memory)
                new == InnerMemory(steps, summary_mode, return_memory)
            IN  /\ IsPrefix(old, new)
                /\ new = old \o to_messages(logged.step[1], summary_mode, return_memory)

\* A step that projects to messages was appended to a store of two records
\* that project to other messages.
C36_Witness ==
    /\ logged.called
    /\ logged.position = PyNone
    /\ Len(logged.before) = 2
    /\ InnerMemory(logged.before, FALSE, FALSE) # <<>>
    /\ to_messages(logged.step[1], FALSE, FALSE) # <<>>
    /\ to_messages(logged.step[1], FALSE, FALSE)
          # to_messages(logged.before[1], FALSE, FALSE)
    /\ Len(InnerMemory(steps, FALSE, FALSE))
          > Len(InnerMemory(logged.before, FALSE, FALSE))

\* C37: for the store at hand, the projection in summary mode is a
\* subsequence of the projection outside it, with the same return_memory,
\* and the projection without return_memory is a subsequence of the one
\* with it, with the same summary_mode: a flag drops or adds whole blocks
\* and leaves the others as they are, in their order.
C37_FlagsOnlyDropBlocks ==
    /\ \A return_memory \in BOOLEAN :
          IsSubsequence(InnerMemory(steps, TRUE, return_memory),
                        InnerMemory(steps, FALSE, return_memory))
    /\ \A summary_mode \in BOOLEAN :
          IsSubsequence(InnerMemory(steps, summary_mode, FALSE),
                        InnerMemory(steps, summary_mode, TRUE))

\* A store of a system prompt, a planning step and an action step with
\* raw memory and model text: each flag changes the number of blocks.
C37_Witness ==
    /\ Len(steps) = 3
    /\ RecordsOf(steps, "SystemPromptStep") # <<>>
    /\ RecordsOf(steps, "PlanningStep") # <<>>
    /\ RecordsOf(steps, "ActionStep") # <<>>
    /\ Len(InnerMemory(steps, TRUE, FALSE)) + 3 <= Len(InnerMemory(steps, FALSE, FALSE))
    /\ Len(InnerMemory(steps, FALSE, FALSE)) < Len(InnerMemory(steps, FALSE, TRUE))
    /\ InnerMemory(steps, TRUE, FALSE) # <<>>

\* C38: a block of role tool-response comes from an ActionStep with a tool
\* call only, and its text begins with the id of the first tool call of
\* the step; an ActionStep with no tool call and no error projects no
\* block with its observations.
C38_ToolResponseNeedsToolCall ==
    projected.called =>
        LET step == projected.step[1]
            answers == SelectSeq(projected.messages,
                                 LAMBDA m : m.role = "tool-response")
        IN  /\ answers # <<>> =>
                  /\ step.cls = "ActionStep"
                  /\ ~step.tool_calls.isNone
                  /\ \A i \in 1..Len(answers) :
                        CarriesCallId(TextOf(answers[i].content), step)
            /\ (step.cls = "ActionStep" /\ step.tool_calls.isNone
                  /\ step.error.isNone /\ ~step.observations.isNone) =>
                  /\ BlocksWith(projected.messages, "Observation:") = <<>>
                  /\ \A i \in 1..Len(projected.messages) :
                        ~Contains(TextOf(projected.messages[i].content),
                                  Head(ObservationsValue))

\* An ActionStep with two tool calls and observations, and no error, was
\* projected to a block of role tool-response.
C38_Witness ==
    /\ ProjectedAction
    /\ ~projected.step[1].tool_calls.isNone
    /\ Len(projected.step[1].tool_calls.v) = 2
    /\ projected.step[1].error.isNone
    /\ ~projected.step[1].observations.isNone
    /\ BlocksWith(projected.messages, "Observation:") # <<>>
    /\ \E i \in 1..Len(projected.messages) : projected.messages[i].role = "tool-response"

====
